---- MODULE Spec2Model ----
(***************************************************************************)
(* Model of the guppy function-body pipeline:                              *)
(*   CFGBuilder / ExprBuilder / BranchBuilder   (src/guppy/cfg.py)         *)
(*   CFG._analyze_liveness / _definite_assignment / _maybe_assignment      *)
(*   check_cfg / check_bb / check_rows_match    (checker/cfg_checker.py)   *)
(*                                                                         *)
(* BBs are numbered from 1 (the code numbers them from 0): bbs[i] is the   *)
(* BB with idx i-1, so the entry BB is 1 and the exit BB is 2.             *)
(* The function body is not fixed in advance: every visit_* action draws   *)
(* the statement it visits from an alphabet, so the reachable states of    *)
(* the build phase are the CFGs of all bodies up to the size bound.        *)
(***************************************************************************)
EXTENDS Integers, Sequences, FiniteSets, TLC

VARIABLES
  sig,       \* the function signature: inputs (VarRow), num_returns, return_ty
  globals,   \* names bound in Globals.values
  bbs,       \* CFG.bbs
  cur,       \* CFGBuilder: the BB in which building continues (bb_opt), NoBB = None
  stack,     \* CFGBuilder: the pending visit_If / visit_While calls
  jumps,     \* CFGBuilder: the Jumps in force
  tmp,       \* ExprBuilder.tmp_vars: number of temporaries handed out
  nid,       \* number of statements visited so far (source order)
  cnt,       \* number of statements visited in the current statement list
  phase,     \* position of the pipeline
  err,       \* the exception raised, NoErr if none
  whiles,    \* log of visit_While calls: their local BBs
  branches,  \* log of build_branch calls made by visit_If / visit_While
  jmplog,    \* log of visit_Continue / visit_Break calls
  queue,     \* the worklist of the running data-flow analysis
  compiled,  \* check_cfg: BB -> signature of its CheckedBB
  bfs,       \* check_cfg: the deque of edges (pred, num_output, bb)
  ctx,       \* check_bb: Context.locals at the end of the BB checked last
  lastbb,    \* check_bb: the BB checked last
  args,      \* CoercingChecker.synthesize: the argument list being rewritten
  hugr,      \* StatementCompiler: the basic blocks added to the CFG node
  variables, \* StatementCompiler: the VarMap in force (names in definition order)
  bbnode,    \* StatementCompiler: the block being filled, NoBB = None
  calls,     \* StatementCompiler: the pending visit_If calls
  call,      \* a function called on its own: its name and its arguments
  ret,       \* the value that the call returned or the exception it raised
  module     \* the GuppyModule

bvars == <<sig, globals, bbs, cur, stack, jumps, tmp, nid, cnt, whiles, branches, jmplog>>
cvars == <<queue, compiled, bfs, ctx, lastbb>>
pvars == <<args, hugr, variables, bbnode, calls>>
ovars == <<call, ret, module>>
vars == <<sig, globals, bbs, cur, stack, jumps, tmp, nid, cnt, phase, err,
          whiles, branches, jmplog, queue, compiled, bfs, ctx, lastbb,
          args, hugr, variables, bbnode, calls, call, ret, module>>

----------------------------------------------------------------------------
(* Bounds of the model *)

\* statements of a function body, full pipeline (Spec)
MaxStmts == 5
\* statements of a function body, builder only (SpecBuild)
MaxStmtsBuild == 4
\* statements of a function body, builder and analyses (SpecAnalysis)
MaxStmtsAnalysis == 3

----------------------------------------------------------------------------
(* Program constants *)

NoBB == 0
EntryBB == 1
ExitBB == 2

NoExpr == [k |-> "None"]
NoErr == [kind |-> "none"]

\* no call is pending and no GuppyModule exists
NoOthers == call = <<>> /\ ret = <<>> /\ module = <<>>

TmpNames == <<"%tmp0", "%tmp1", "%tmp2", "%tmp3", "%tmp4", "%tmp5">>
RetNames == <<"%ret_0", "%ret_1">>

\* return_var(i), i counted from 0
return_var(i) == RetNames[i + 1]

----------------------------------------------------------------------------
(* The abstract syntax *)

Name(x) == [k |-> "Name", id |-> x]
Const(v) == [k |-> "Constant", value |-> v]
Call(f, as) == [k |-> "Call", func |-> f, args |-> as]
BoolOp(o, vs) == [k |-> "BoolOp", op |-> o, values |-> vs]
Not(e) == [k |-> "UnaryOp", op |-> "Not", operand |-> e]
Compare(l, cs) == [k |-> "Compare", left |-> l, comparators |-> cs]
IfExp(t, b, o) == [k |-> "IfExp", test |-> t, body |-> b, orelse |-> o]

Assign(x, e) == [k |-> "Assign", target |-> x, value |-> e]
AugAssign(x, e) == [k |-> "AugAssign", target |-> x, value |-> e]
ExprStmt(e) == [k |-> "Expr", value |-> e]
If(t) == [k |-> "If", test |-> t]
While(t) == [k |-> "While", test |-> t]
Return(e) == [k |-> "Return", value |-> e]
Break == [k |-> "Break"]
Continue == [k |-> "Continue"]
Pass == [k |-> "Pass"]

RECURSIVE NamesIn(_)
RECURSIVE NamesInList(_)
\* name_nodes_in_ast: the names of an expression, in the order of the walk
NamesIn(e) ==
  CASE e.k = "Name" -> <<e.id>>
    [] e.k = "Call" -> <<e.func>> \o NamesInList(e.args)
    [] e.k = "BoolOp" -> NamesInList(e.values)
    [] e.k = "UnaryOp" -> NamesIn(e.operand)
    [] e.k = "Compare" -> NamesIn(e.left) \o NamesInList(e.comparators)
    [] e.k = "IfExp" -> NamesIn(e.test) \o NamesIn(e.body) \o NamesIn(e.orelse)
    [] OTHER -> <<>>
NamesInList(es) ==
  IF es = <<>> THEN <<>> ELSE NamesIn(Head(es)) \o NamesInList(Tail(es))

Range(s) == {s[i] : i \in 1..Len(s)}

----------------------------------------------------------------------------
(* CFG *)

BBRec == [succs |-> <<>>, preds |-> <<>>, stmts |-> <<>>, branch_pred |-> NoExpr,
          pred_at |-> 0, used |-> {}, assigned |-> {},
          live_before |-> {}, assigned_before |-> {}, maybe_assigned_before |-> {}]

\* CFG.new_bb: the id of the new BB is Len(b) + 1
new_bb(b, preds) ==
  LET n == Len(b) + 1
      nb == [BBRec EXCEPT !.preds = preds]
  IN [i \in 1..n |->
        IF i = n THEN nb
        ELSE LET k == Cardinality({j \in 1..Len(preds) : preds[j] = i})
             IN IF k = 0 THEN b[i]
                ELSE [b[i] EXCEPT !.succs = @ \o [j \in 1..k |-> n]]]

\* CFG.link
link(b, src, tgt) ==
  [b EXCEPT ![src].succs = Append(@, tgt), ![tgt].preds = Append(@, src)]

RECURSIVE update_used_names(_, _)
\* VariableStats.update_used for a sequence of names: a name counts as used in
\* the BB when it is neither assigned in it already nor used before
update_used_names(v, ns) ==
  IF ns = <<>> THEN v
  ELSE LET x == Head(ns)
           v1 == IF x \notin v.assigned /\ x \notin v.used
                 THEN [v EXCEPT !.used = @ \cup {x}] ELSE v
       IN update_used_names(v1, Tail(ns))

update_used(b, bb, e) == [b EXCEPT ![bb] = update_used_names(@, NamesIn(e))]

----------------------------------------------------------------------------
(* ExprBuilder and BranchBuilder.  A builder state st is                   *)
(* [bbs, bb, tmp, nid]: the CFG, ExprBuilder.bb, the temporaries handed    *)
(* out, and the id of the statement being built.                           *)

\* ExprBuilder._tmp_assign
tmp_assign(b, tmp_name, value, bb, n) ==
  LET b1 == [b EXCEPT ![bb].stmts =
                Append(@, [k |-> "Assign", nid |-> n, target |-> tmp_name, value |-> value])]
      b2 == update_used(b1, bb, value)
  IN [b2 EXCEPT ![bb].assigned = @ \cup {tmp_name}]

\* BranchBuilder.is_short_circuit_expr
is_short_circuit_expr(node) ==
  node.k = "BoolOp" \/ (node.k = "Compare" /\ Len(node.comparators) > 1)

RECURSIVE EBVisit(_, _)
RECURSIVE EBVisitList(_, _)
RECURSIVE BranchVisit(_, _, _, _, _)

\* a visit_IfExp that assigns the value of orelse to a temporary of its own
EB_IfExp_merge_two_tmps(r1, r2, n) ==
  LET t == TmpNames[r2.st.tmp + 1]
  IN [expr |-> Name(t),
      st |-> [bbs |-> new_bb(tmp_assign(tmp_assign(r2.st.bbs, t, r1.expr, r1.st.bb, n),
                                        TmpNames[r2.st.tmp + 2], r2.expr, r2.st.bb, n),
                             <<r1.st.bb, r2.st.bb>>),
              bb |-> Len(r2.st.bbs) + 1, tmp |-> r2.st.tmp + 1, nid |-> n]]

\* ExprBuilder.visit_IfExp: both values are assigned to a new temporary and the
\* two BBs are merged; r1 and r2 are the results of the visits of body and orelse
EB_IfExp_merge(r1, r2, n) ==
  LET t == TmpNames[r2.st.tmp + 1]
  IN [expr |-> Name(t),
      st |-> [bbs |-> new_bb(tmp_assign(tmp_assign(r2.st.bbs, t, r1.expr, r1.st.bb, n),
                                        t, r2.expr, r2.st.bb, n),
                             <<r1.st.bb, r2.st.bb>>),
              bb |-> Len(r2.st.bbs) + 1, tmp |-> r2.st.tmp + 1, nid |-> n]]

\* ExprBuilder.visit_IfExp: the visit of node.orelse in else_bb
EB_IfExp_orelse(node, r1, else_bb) ==
  EB_IfExp_merge(r1, EBVisit(node.orelse, [r1.st EXCEPT !.bb = else_bb]), r1.st.nid)

\* ExprBuilder.visit_IfExp: the visit of node.body in if_bb; s1 is the builder
\* after the branch on node.test
EB_IfExp_body(node, s1, if_bb, else_bb) ==
  EB_IfExp_orelse(node, EBVisit(node.body, [s1 EXCEPT !.bb = if_bb]), else_bb)

\* ExprBuilder.visit_IfExp
EB_visit_IfExp(node, st) ==
  EB_IfExp_body(node,
                BranchVisit(node.test,
                            [st EXCEPT !.bbs = new_bb(new_bb(st.bbs, <<>>), <<>>)],
                            st.bb, Len(st.bbs) + 1, Len(st.bbs) + 2),
                Len(st.bbs) + 1, Len(st.bbs) + 2)

\* ExprBuilder.generic_visit, the short-circuit case: True and False are
\* assigned to a new temporary in the two targets, which are then merged; s1 is
\* the builder after the branch
EB_short_circuit_merge(s1, true_bb, false_bb) ==
  LET t == TmpNames[s1.tmp + 1]
  IN [expr |-> Name(t),
      st |-> [bbs |-> new_bb(tmp_assign(tmp_assign(s1.bbs, t, Const("True"), true_bb, s1.nid),
                                        t, Const("False"), false_bb, s1.nid),
                             <<true_bb, false_bb>>),
              bb |-> Len(s1.bbs) + 1, tmp |-> s1.tmp + 1, nid |-> s1.nid]]

\* ExprBuilder.generic_visit, the short-circuit case
EB_short_circuit(node, st) ==
  EB_short_circuit_merge(
    BranchVisit(node, [st EXCEPT !.bbs = new_bb(new_bb(st.bbs, <<>>), <<>>)],
                st.bb, Len(st.bbs) + 1, Len(st.bbs) + 2),
    Len(st.bbs) + 1, Len(st.bbs) + 2)

\* ast.iter_fields: the child expressions of a node, in the order of its fields
children(node) ==
  CASE node.k = "Call" -> <<Name(node.func)>> \o node.args
    [] node.k = "UnaryOp" -> <<node.operand>>
    [] node.k = "Compare" -> <<node.left>> \o node.comparators
    [] OTHER -> <<>>

\* ast.NodeTransformer.generic_visit: the node with its children replaced by
\* the results r of their visits
with_children(node, r) ==
  [expr |-> CASE node.k = "Call" -> Call(node.func, Tail(r.exprs))
              [] node.k = "UnaryOp" -> Not(r.exprs[1])
              [] node.k = "Compare" -> Compare(r.exprs[1], Tail(r.exprs))
              [] OTHER -> node,
   st |-> r.st]

\* ExprBuilder.visit: visit_Name, visit_IfExp, generic_visit
EBVisit(node, st) ==
  CASE node.k = "Name" ->
         [expr |-> node, st |-> [st EXCEPT !.bbs = update_used(st.bbs, st.bb, node)]]
    [] node.k = "IfExp" -> EB_visit_IfExp(node, st)
    [] node.k # "IfExp" /\ is_short_circuit_expr(node) -> EB_short_circuit(node, st)
    [] OTHER -> with_children(node, EBVisitList(children(node), st))

\* the results of a visit and of the visits after it
EBVisitList_cons(r1, r2) == [exprs |-> <<r1.expr>> \o r2.exprs, st |-> r2.st]

\* the visits after the first, in the builder the first has left
EBVisitList_rest(r1, nodes) == EBVisitList_cons(r1, EBVisitList(nodes, r1.st))

\* ast.NodeTransformer.generic_visit on a list of children, left to right
EBVisitList(nodes, st) ==
  IF nodes = <<>> THEN [exprs |-> <<>>, st |-> st]
  ELSE EBVisitList_rest(EBVisit(Head(nodes), st), Tail(nodes))

\* ExprBuilder.build
EB_build(node, b, bb, t, n) == EBVisit(node, [bbs |-> b, bb |-> bb, tmp |-> t, nid |-> n])

\* a visit_BoolOp that lowers `or` with the targets of `and`
BB_visit_BoolOp_or_as_and(node, st, bb, true_bb, false_bb) ==
  LET left == node.values[1]
      right == IF Len(node.values) > 2
               THEN BoolOp(node.op, Tail(node.values))
               ELSE node.values[2]
      extra_bb == Len(st.bbs) + 1
      s0 == [st EXCEPT !.bbs = new_bb(st.bbs, <<>>)]
      s1 == BranchVisit(left, s0, bb, extra_bb, false_bb)
  IN BranchVisit(right, s1, extra_bb, true_bb, false_bb)

\* a visit_BoolOp that lowers `and` with the targets of `or`
BB_visit_BoolOp_and_as_or(node, st, bb, true_bb, false_bb) ==
  LET left == node.values[1]
      right == IF Len(node.values) > 2
               THEN BoolOp(node.op, Tail(node.values))
               ELSE node.values[2]
      extra_bb == Len(st.bbs) + 1
      s0 == [st EXCEPT !.bbs = new_bb(st.bbs, <<>>)]
      s1 == BranchVisit(left, s0, bb, true_bb, extra_bb)
  IN BranchVisit(right, s1, extra_bb, true_bb, false_bb)

\* BranchBuilder.visit_BoolOp
BB_visit_BoolOp(node, st, bb, true_bb, false_bb) ==
  LET left == node.values[1]
      right == IF Len(node.values) > 2
               THEN BoolOp(node.op, Tail(node.values))
               ELSE node.values[2]
      extra_bb == Len(st.bbs) + 1
      s0 == [st EXCEPT !.bbs = new_bb(st.bbs, <<>>)]
      s1 == BranchVisit(left, s0, bb,
                        IF node.op = "And" THEN extra_bb ELSE true_bb,
                        IF node.op = "And" THEN false_bb ELSE extra_bb)
  IN BranchVisit(right, s1, extra_bb, true_bb, false_bb)

\* BranchBuilder.visit_Compare, the chained case: the conjunction it builds
chain_conj(node) ==
  LET comparators == <<node.left>> \o node.comparators
  IN BoolOp("And", [i \in 1..(Len(comparators) - 1) |->
                       Compare(comparators[i], <<comparators[i + 1]>>)])

\* BranchBuilder.visit_IfExp
BB_visit_IfExp(node, st, bb, true_bb, false_bb) ==
  LET if_bb == Len(st.bbs) + 1
      else_bb == Len(st.bbs) + 2
      s0 == [st EXCEPT !.bbs = new_bb(new_bb(st.bbs, <<>>), <<>>)]
      s1 == BranchVisit(node.test, s0, bb, if_bb, else_bb)
      s2 == BranchVisit(node.body, s1, if_bb, true_bb, false_bb)
  IN BranchVisit(node.orelse, s2, else_bb, true_bb, false_bb)

\* a generic_visit that forgets the predicate
BB_generic_link_without_pred(r, n, true_bb, false_bb) ==
  [r.st EXCEPT !.bbs = link(link(r.st.bbs, r.st.bb, true_bb), r.st.bb, false_bb)]

\* a generic_visit that links the false target first
BB_generic_link_false_first(r, n, true_bb, false_bb) ==
  [r.st EXCEPT !.bbs =
     link(link(update_used([r.st.bbs EXCEPT ![r.st.bb].branch_pred = r.expr,
                                            ![r.st.bb].pred_at = n],
                           r.st.bb, r.expr),
               r.st.bb, false_bb),
          r.st.bb, true_bb)]

\* BranchBuilder.generic_visit: the BB that the ExprBuilder ends in gets the
\* predicate and the two targets; r is the result of the ExprBuilder
BB_generic_link(r, n, true_bb, false_bb) ==
  [r.st EXCEPT !.bbs =
     link(link(update_used([r.st.bbs EXCEPT ![r.st.bb].branch_pred = r.expr,
                                            ![r.st.bb].pred_at = n],
                           r.st.bb, r.expr),
               r.st.bb, true_bb),
          r.st.bb, false_bb)]

\* BranchBuilder.generic_visit
BB_generic_visit(node, st, bb, true_bb, false_bb) ==
  BB_generic_link(EBVisit(node, [st EXCEPT !.bb = bb]), st.nid, true_bb, false_bb)

\* BranchBuilder.visit: visit_BoolOp, visit_UnaryOp, visit_Compare, visit_IfExp,
\* generic_visit
BranchVisit(node, st, bb, true_bb, false_bb) ==
  CASE is_short_circuit_expr(node) ->
         BB_visit_BoolOp(IF node.k = "Compare" THEN chain_conj(node) ELSE node,
                         st, bb, true_bb, false_bb)
    [] node.k = "UnaryOp" /\ node.op = "Not" ->
         BranchVisit(node.operand, st, bb, false_bb, true_bb)
    [] node.k = "IfExp" -> BB_visit_IfExp(node, st, bb, true_bb, false_bb)
    [] OTHER -> BB_generic_visit(node, st, bb, true_bb, false_bb)

\* ExprBuilder.build_branch
build_branch(node, b, bb, true_bb, false_bb, t, n) ==
  BranchVisit(node, [bbs |-> b, bb |-> bb, tmp |-> t, nid |-> n], bb, true_bb, false_bb)

----------------------------------------------------------------------------
(* CFGBuilder *)

Raise(kind) ==
  /\ phase' = "error"
  /\ err' = [kind |-> kind]

\* the innermost visit_While call that is pending, 0 if none
RECURSIVE InnerLoop(_)
InnerLoop(stk) ==
  IF stk = <<>> THEN 0
  ELSE IF stk[Len(stk)].k = "While" THEN stk[Len(stk)].widx
  ELSE InnerLoop(SubSeq(stk, 1, Len(stk) - 1))

\* CFGBuilder.visit_Assign
visit_Assign(node) ==
  /\ phase = "build" /\ cur # NoBB /\ node.k = "Assign"
  /\ \E r \in {EB_build(node.value, bbs, cur, tmp, nid + 1)} :
       LET bb == r.st.bb
           b1 == [r.st.bbs EXCEPT ![bb].stmts =
                     Append(@, [k |-> "Assign", nid |-> nid + 1,
                                target |-> node.target, value |-> r.expr])]
           b2 == update_used(b1, bb, r.expr)
       IN /\ bbs' = [b2 EXCEPT ![bb].assigned = @ \cup {node.target}]
          /\ cur' = bb
          /\ tmp' = r.st.tmp
  /\ nid' = nid + 1 /\ cnt' = cnt + 1
  /\ UNCHANGED <<pvars, ovars>>
  /\ UNCHANGED <<sig, globals, stack, jumps, phase, err, whiles, branches, jmplog>>
  /\ UNCHANGED cvars

\* CFGBuilder.visit_AugAssign
visit_AugAssign(node) ==
  /\ phase = "build" /\ cur # NoBB /\ node.k = "AugAssign"
  /\ LET b1 == [bbs EXCEPT ![cur].stmts =
                   Append(@, [k |-> "AugAssign", nid |-> nid + 1,
                              target |-> node.target, value |-> node.value])]
         b2 == update_used(b1, cur, node.value)
         b3 == update_used(b2, cur, Name(node.target))
     IN bbs' = [b3 EXCEPT ![cur].assigned = @ \cup {node.target}]
  /\ nid' = nid + 1 /\ cnt' = cnt + 1
  /\ UNCHANGED <<pvars, ovars>>
  /\ UNCHANGED <<sig, globals, cur, stack, jumps, tmp, phase, err, whiles, branches, jmplog>>
  /\ UNCHANGED cvars

\* CFGBuilder.visit_Expr
visit_Expr(node) ==
  /\ phase = "build" /\ cur # NoBB /\ node.k = "Expr"
  /\ \E r \in {EB_build(node.value, bbs, cur, tmp, nid + 1)} :
       /\ bbs' = r.st.bbs
       /\ cur' = r.st.bb
       /\ tmp' = r.st.tmp
  /\ nid' = nid + 1 /\ cnt' = cnt + 1
  /\ UNCHANGED <<pvars, ovars>>
  /\ UNCHANGED <<sig, globals, stack, jumps, phase, err, whiles, branches, jmplog>>
  /\ UNCHANGED cvars

\* CFGBuilder.visit_If, up to the visit of node.body
visit_If(node) ==
  /\ phase = "build" /\ cur # NoBB /\ node.k = "If"
  /\ LET if_bb == Len(bbs) + 1
         else_bb == Len(bbs) + 2
         b1 == new_bb(new_bb(bbs, <<>>), <<>>)
     IN /\ \E s \in {build_branch(node.test, b1, cur, if_bb, else_bb, tmp, nid + 1)} :
             bbs' = s.bbs /\ tmp' = s.tmp
        /\ cur' = if_bb
        /\ stack' = Append(stack, [k |-> "If", stage |-> "body", else_bb |-> else_bb,
                                   if_res |-> NoBB, cnt |-> cnt + 1])
        /\ branches' = Append(branches, [bb |-> cur, test |-> node.test,
                                         true_bb |-> if_bb, false_bb |-> else_bb])
  /\ nid' = nid + 1 /\ cnt' = 0
  /\ UNCHANGED <<pvars, ovars>>
  /\ UNCHANGED <<sig, globals, jumps, phase, err, whiles, jmplog>>
  /\ UNCHANGED cvars

\* CFGBuilder.visit_If: node.body is exhausted, node.orelse is visited next
visit_If_orelse ==
  /\ phase = "build" /\ stack # <<>> /\ cnt >= 1
  /\ LET f == stack[Len(stack)]
     IN /\ f.k = "If" /\ f.stage = "body"
        /\ stack' = [stack EXCEPT ![Len(stack)] =
                        [f EXCEPT !.stage = "orelse", !.if_res = cur]]
        /\ cur' = f.else_bb
  /\ cnt' = 0
  /\ UNCHANGED <<pvars, ovars>>
  /\ UNCHANGED <<sig, globals, bbs, jumps, tmp, nid, phase, err, whiles, branches, jmplog>>
  /\ UNCHANGED cvars

\* CFGBuilder.visit_If: both statement lists are exhausted
visit_If_merge ==
  /\ phase = "build" /\ stack # <<>>
  /\ LET f == stack[Len(stack)]
         if_bb == f.if_res
         else_bb == cur
     IN /\ f.k = "If" /\ f.stage = "orelse"
        /\ IF if_bb = NoBB /\ else_bb = NoBB THEN cur' = NoBB /\ bbs' = bbs
           ELSE IF if_bb = NoBB THEN cur' = else_bb /\ bbs' = bbs
           ELSE IF else_bb = NoBB THEN cur' = if_bb /\ bbs' = bbs
           ELSE /\ bbs' = new_bb(bbs, <<if_bb, else_bb>>)
                /\ cur' = Len(bbs) + 1
        /\ cnt' = f.cnt
        /\ stack' = SubSeq(stack, 1, Len(stack) - 1)
  /\ UNCHANGED <<pvars, ovars>>
  /\ UNCHANGED <<sig, globals, jumps, tmp, nid, phase, err, whiles, branches, jmplog>>
  /\ UNCHANGED cvars

\* CFGBuilder.visit_While, up to the visit of node.body
visit_While(node) ==
  /\ phase = "build" /\ cur # NoBB /\ node.k = "While"
  /\ LET head_bb == Len(bbs) + 1
         body_bb == Len(bbs) + 2
         tail_bb == Len(bbs) + 3
         b1 == new_bb(new_bb(new_bb(bbs, <<cur>>), <<>>), <<>>)
     IN /\ \E s \in {build_branch(node.test, b1, head_bb, body_bb, tail_bb, tmp, nid + 1)} :
             bbs' = s.bbs /\ tmp' = s.tmp
        /\ cur' = body_bb
        /\ jumps' = [return_bb |-> jumps.return_bb, continue_bb |-> head_bb,
                     break_bb |-> tail_bb]
        /\ stack' = Append(stack, [k |-> "While", head_bb |-> head_bb, tail_bb |-> tail_bb,
                                   jumps |-> jumps, cnt |-> cnt + 1,
                                   widx |-> Len(whiles) + 1])
        /\ whiles' = Append(whiles, [pre |-> cur, head |-> head_bb, body |-> body_bb,
                                     tail |-> tail_bb, test |-> node.test,
                                     done |-> FALSE, fall |-> NoBB, after |-> NoBB])
  /\ nid' = nid + 1 /\ cnt' = 0
  /\ UNCHANGED <<pvars, ovars>>
  /\ UNCHANGED <<sig, globals, phase, err, branches, jmplog>>
  /\ UNCHANGED cvars

\* a visit_While that returns None when the body always jumps
visit_While_end_none ==
  /\ phase = "build" /\ stack # <<>> /\ cnt >= 1
  /\ LET f == stack[Len(stack)]
         body_bb == cur
     IN /\ f.k = "While"
        /\ bbs' = IF body_bb = NoBB THEN bbs ELSE link(bbs, body_bb, f.head_bb)
        /\ cur' = IF body_bb = NoBB THEN NoBB ELSE f.tail_bb
        /\ jumps' = f.jumps
        /\ cnt' = f.cnt
        /\ whiles' = [whiles EXCEPT ![f.widx] =
                         [@ EXCEPT !.done = TRUE, !.fall = body_bb, !.after = cur']]
        /\ stack' = SubSeq(stack, 1, Len(stack) - 1)
  /\ UNCHANGED <<pvars, ovars>>
  /\ UNCHANGED <<sig, globals, tmp, nid, phase, err, branches, jmplog>>
  /\ UNCHANGED cvars

\* CFGBuilder.visit_While: node.body is exhausted
visit_While_end ==
  /\ phase = "build" /\ stack # <<>> /\ cnt >= 1
  /\ LET f == stack[Len(stack)]
         body_bb == cur
     IN /\ f.k = "While"
        /\ bbs' = IF body_bb = NoBB THEN bbs ELSE link(bbs, body_bb, f.head_bb)
        /\ cur' = f.tail_bb
        /\ jumps' = f.jumps
        /\ cnt' = f.cnt
        /\ whiles' = [whiles EXCEPT ![f.widx] =
                         [@ EXCEPT !.done = TRUE, !.fall = body_bb, !.after = cur']]
        /\ stack' = SubSeq(stack, 1, Len(stack) - 1)
  /\ UNCHANGED <<pvars, ovars>>
  /\ UNCHANGED <<sig, globals, tmp, nid, phase, err, branches, jmplog>>
  /\ UNCHANGED cvars

\* CFGBuilder.visit_Continue
visit_Continue(node) ==
  /\ phase = "build" /\ cur # NoBB /\ node.k = "Continue"
  /\ nid' = nid + 1 /\ cnt' = cnt + 1
  /\ IF jumps.continue_bb = NoBB
     THEN /\ Raise("Continue BB not defined")
          /\ UNCHANGED <<bbs, cur, jmplog>>
     ELSE /\ bbs' = link(bbs, cur, jumps.continue_bb)
          /\ cur' = NoBB
          /\ jmplog' = Append(jmplog, [k |-> "Continue", bb |-> cur, loop |-> InnerLoop(stack)])
          /\ UNCHANGED <<phase, err>>
  /\ UNCHANGED <<pvars, ovars>>
  /\ UNCHANGED <<sig, globals, stack, jumps, tmp, whiles, branches>>
  /\ UNCHANGED cvars

\* CFGBuilder.visit_Break
visit_Break(node) ==
  /\ phase = "build" /\ cur # NoBB /\ node.k = "Break"
  /\ nid' = nid + 1 /\ cnt' = cnt + 1
  /\ IF jumps.break_bb = NoBB
     THEN /\ Raise("Break BB not defined")
          /\ UNCHANGED <<bbs, cur, jmplog>>
     ELSE /\ bbs' = link(bbs, cur, jumps.break_bb)
          /\ cur' = NoBB
          /\ jmplog' = Append(jmplog, [k |-> "Break", bb |-> cur, loop |-> InnerLoop(stack)])
          /\ UNCHANGED <<phase, err>>
  /\ UNCHANGED <<pvars, ovars>>
  /\ UNCHANGED <<sig, globals, stack, jumps, tmp, whiles, branches>>
  /\ UNCHANGED cvars

\* CFGBuilder.visit_Return
visit_Return(node) ==
  /\ phase = "build" /\ cur # NoBB /\ node.k = "Return"
  /\ \E r \in {IF node.value # NoExpr
                 THEN EB_build(node.value, bbs, cur, tmp, nid + 1)
                 ELSE [expr |-> NoExpr,
                       st |-> [bbs |-> bbs, bb |-> cur, tmp |-> tmp, nid |-> nid + 1]]} :
       LET bb == r.st.bb
           b1 == IF node.value # NoExpr THEN update_used(r.st.bbs, bb, r.expr) ELSE r.st.bbs
           b2 == link(b1, bb, jumps.return_bb)
           b3 == [b2 EXCEPT ![bb].assigned =
                     @ \cup {return_var(i) : i \in 0..(sig.num_returns - 1)}]
       IN /\ bbs' = [b3 EXCEPT ![bb].stmts =
                        Append(@, [k |-> "Return", nid |-> nid + 1, value |-> r.expr])]
          /\ tmp' = r.st.tmp
  /\ branches' = IF node.value # NoExpr /\ node.value.k # "IfExp"
                     /\ is_short_circuit_expr(node.value)
                  THEN Append(branches, [bb |-> cur, test |-> node.value,
                                         true_bb |-> Len(bbs) + 1,
                                         false_bb |-> Len(bbs) + 2])
                  ELSE branches
  /\ cur' = NoBB
  /\ nid' = nid + 1 /\ cnt' = cnt + 1
  /\ UNCHANGED <<pvars, ovars>>
  /\ UNCHANGED <<sig, globals, stack, jumps, phase, err, whiles, jmplog>>
  /\ UNCHANGED cvars

\* CFGBuilder.visit_Pass
visit_Pass(node) ==
  /\ phase = "build" /\ cur # NoBB /\ node.k = "Pass"
  /\ nid' = nid + 1 /\ cnt' = cnt + 1
  /\ UNCHANGED <<pvars, ovars>>
  /\ UNCHANGED <<sig, globals, bbs, cur, stack, jumps, tmp, phase, err,
                 whiles, branches, jmplog>>
  /\ UNCHANGED cvars

\* CFGBuilder.visit_stmts: a statement follows a jump
visit_stmts_unreachable ==
  /\ phase = "build" /\ cur = NoBB
  /\ Raise("Unreachable code")
  /\ nid' = nid + 1 /\ cnt' = cnt + 1
  /\ UNCHANGED <<pvars, ovars>>
  /\ UNCHANGED <<sig, globals, bbs, cur, stack, jumps, tmp, whiles, branches, jmplog>>
  /\ UNCHANGED cvars

\* a build that does not link the final BB to the exit BB
build_end_unlinked ==
  /\ phase = "build" /\ stack = <<>> /\ cnt >= 1
  /\ IF cur # NoBB /\ sig.num_returns > 0
     THEN /\ Raise("Expected return statement")
          /\ bbs' = bbs
     ELSE /\ bbs' = [bbs EXCEPT ![ExitBB].used =
                       {return_var(i) : i \in 0..(sig.num_returns - 1)}]
          /\ phase' = "built"
          /\ err' = err
  /\ UNCHANGED <<pvars, ovars>>
  /\ UNCHANGED <<sig, globals, cur, stack, jumps, tmp, nid, cnt, whiles, branches, jmplog>>
  /\ UNCHANGED cvars

\* CFGBuilder.build, after visit_stmts has returned
build_end ==
  /\ phase = "build" /\ stack = <<>> /\ cnt >= 1
  /\ IF cur # NoBB /\ sig.num_returns > 0
     THEN /\ Raise("Expected return statement")
          /\ bbs' = bbs
     ELSE /\ LET b1 == IF cur # NoBB THEN link(bbs, cur, ExitBB) ELSE bbs
             IN bbs' = [b1 EXCEPT ![ExitBB].used =
                           {return_var(i) : i \in 0..(sig.num_returns - 1)}]
          /\ phase' = "built"
          /\ err' = err
  /\ UNCHANGED <<pvars, ovars>>
  /\ UNCHANGED <<sig, globals, cur, stack, jumps, tmp, nid, cnt, whiles, branches, jmplog>>
  /\ UNCHANGED cvars

----------------------------------------------------------------------------
(* Initial states *)

Jumps0 == [return_bb |-> ExitBB, continue_bb |-> NoBB, break_bb |-> NoBB]

\* CFGBuilder.build: a new CFG holds the entry and the exit BB
InitWith(s, g) ==
  /\ sig = s
  /\ globals = g
  /\ bbs = <<BBRec, BBRec>>
  /\ cur = EntryBB
  /\ stack = <<>>
  /\ jumps = Jumps0
  /\ tmp = 0 /\ nid = 0 /\ cnt = 0
  /\ phase = "build"
  /\ err = NoErr
  /\ whiles = <<>> /\ branches = <<>> /\ jmplog = <<>>
  /\ queue = {}
  /\ compiled = <<>>
  /\ bfs = <<>>
  /\ ctx = <<>>
  /\ lastbb = NoBB
  /\ args = <<>> /\ hugr = <<>> /\ variables = <<>> /\ bbnode = NoBB /\ calls = <<>>
  /\ NoOthers

----------------------------------------------------------------------------
(* SpecBuild: the builder alone, on bodies whose tests exercise the        *)
(* BranchBuilder                                                           *)

BuildTests ==
  { Name("a"),
    Not(Name("a")),
    BoolOp("And", <<Name("a"), Name("b")>>),
    BoolOp("Or", <<Name("a"), Name("b")>>),
    BoolOp("And", <<Name("a"), Name("b"), Name("c")>>),
    BoolOp("Or", <<BoolOp("And", <<Name("a"), Name("b")>>), Name("c")>>),
    BoolOp("And", <<Not(Name("a")), BoolOp("Or", <<Name("b"), Name("c")>>)>>),
    Not(BoolOp("Or", <<Name("a"), Name("b")>>)),
    Compare(Name("a"), <<Name("b"), Name("c")>>),
    IfExp(Name("a"), Name("b"), Name("c")) }

WhileTests ==
  { Name("a"), Not(Name("a")), BoolOp("And", <<Name("a"), Name("b")>>) }

BuildStmts ==
  {If(t) : t \in BuildTests} \cup {While(t) : t \in WhileTests}
  \cup { Break, Continue, Pass, Return(NoExpr),
         Return(BoolOp("And", <<Name("a"), Name("b")>>)),
         Return(IfExp(Name("a"), Const("1"), Const("2"))) }

BuildSigs ==
  { [inputs |-> <<>>, num_returns |-> 0, return_ty |-> "None"],
    [inputs |-> <<>>, num_returns |-> 1, return_ty |-> "bool"] }

InitBuild == \E s \in BuildSigs : InitWith(s, {})

NextBuild ==
  \/ \E node \in BuildStmts :
        /\ nid < MaxStmtsBuild
        /\ \/ visit_If(node)
           \/ visit_While(node)
           \/ visit_Continue(node)
           \/ visit_Break(node)
           \/ visit_Return(node)
           \/ visit_Pass(node)
  \/ nid < MaxStmtsBuild /\ visit_stmts_unreachable
  \/ visit_If_orelse
  \/ visit_If_merge
  \/ visit_While_end
  \/ build_end

SpecBuild == InitBuild /\ [][NextBuild]_vars

----------------------------------------------------------------------------
(* Program analyses (CFG.analyze).  A dict name -> BB is a set of pairs    *)
(* <<name, BB>> with one pair for a name.                                  *)

Keys(d) == {p[1] : p \in d}

\* d1 | d2 on dicts: the entries of d2 win
DictUnion(d1, d2) == {p \in d1 : p[1] \notin Keys(d2)} \cup d2

AllBBs == 1..Len(bbs)

\* check_cfg: ass_before, the names of the inputs, handed to cfg.analyze
ass_before == {sig.inputs[i].name : i \in 1..Len(sig.inputs)}

\* cfg.ass_before[cfg.entry_bb] as check_bb reads it: the analysis that takes
\* def_ass_before starts the entry BB with it, and the entry BB has no predecessor
cfg_ass_before_entry == ass_before

\* CFG._analyze_liveness: the sets before the worklist loop
liveness_start(c) ==
  [b \in 1..Len(c) |->
     [c[b] EXCEPT !.live_before =
        IF b = ExitBB THEN {<<x, ExitBB>> : x \in c[ExitBB].used} ELSE {}]]

\* CFG._analyze_liveness: the initialisation
liveness_init ==
  /\ phase = "built"
  /\ bbs' = liveness_start(bbs)
  /\ queue' = AllBBs
  /\ phase' = "liveness"
  /\ UNCHANGED <<pvars, ovars>>
  /\ UNCHANGED <<sig, globals, cur, stack, jumps, tmp, nid, cnt, err, whiles, branches, jmplog>>
  /\ UNCHANGED <<compiled, bfs, ctx, lastbb>>

\* a liveness transfer that lets an assignment in pred keep the name live
live_before_unfiltered(c, bb, pred) ==
  DictUnion({<<x, pred>> : x \in c[pred].used}, c[bb].live_before)

\* CFG._analyze_liveness: what is live before pred because of its successor bb
live_before(c, bb, pred) ==
  DictUnion({<<x, pred>> : x \in c[pred].used},
            {p \in c[bb].live_before : p[1] \notin c[pred].assigned})

RECURSIVE liveness_preds(_, _, _, _)
\* CFG._analyze_liveness: the loop over bb.predecessors; st is [bbs, queue]
liveness_preds(st, bb, preds, i) ==
  IF i > Len(preds) THEN st
  ELSE LET pred == preds[i]
           live == live_before(st.bbs, bb, pred)
           st1 == IF ~(Keys(live) \subseteq Keys(st.bbs[pred].live_before))
                  THEN [bbs |-> [st.bbs EXCEPT ![pred].live_before = DictUnion(@, live)],
                        queue |-> st.queue \cup {pred}]
                  ELSE st
       IN liveness_preds(st1, bb, preds, i + 1)

\* CFG._analyze_liveness: one turn of the worklist loop; queue.pop() takes any BB
liveness_step(bb) ==
  /\ phase = "liveness" /\ bb \in queue
  /\ \E st \in {liveness_preds([bbs |-> bbs, queue |-> queue \ {bb}], bb, bbs[bb].preds, 1)} :
       bbs' = st.bbs /\ queue' = st.queue
  /\ UNCHANGED <<pvars, ovars>>
  /\ UNCHANGED <<sig, globals, cur, stack, jumps, tmp, nid, cnt, phase, err,
                 whiles, branches, jmplog>>
  /\ UNCHANGED <<compiled, bfs, ctx, lastbb>>

\* CFG._analyze_definite_assignment: all_vars
all_vars(c) == UNION {c[b].used \cup c[b].assigned : b \in 1..Len(c)}

\* a start of the analysis that takes the inputs and the globals as assigned
\* before the entry BB
definite_assignment_start_with_inputs(c) ==
  [b \in 1..Len(c) |->
     [c[b] EXCEPT !.assigned_before =
        IF b = EntryBB THEN ass_before \cup globals ELSE all_vars(c)]]

\* CFG._analyze_definite_assignment: the sets before the worklist loop
definite_assignment_start(c) ==
  [b \in 1..Len(c) |->
     [c[b] EXCEPT !.assigned_before = IF b = EntryBB THEN {} ELSE all_vars(c)]]

\* CFG._analyze_definite_assignment: the initialisation
definite_assignment_init ==
  /\ phase = "liveness" /\ queue = {}
  /\ bbs' = definite_assignment_start(bbs)
  /\ queue' = AllBBs
  /\ phase' = "defass"
  /\ UNCHANGED <<pvars, ovars>>
  /\ UNCHANGED <<sig, globals, cur, stack, jumps, tmp, nid, cnt, err, whiles, branches, jmplog>>
  /\ UNCHANGED <<compiled, bfs, ctx, lastbb>>

\* an assigned_after that forgets the assignments of bb itself
assigned_after_without_bb(c, bb) == c[bb].assigned_before

\* CFG._analyze_definite_assignment: assigned_after of the popped BB
assigned_after(c, bb) == c[bb].assigned_before \cup c[bb].assigned

RECURSIVE definite_assignment_succs(_, _, _, _)
\* CFG._analyze_definite_assignment: the loop over bb.successors; after is the
\* assigned_after of the popped BB
definite_assignment_succs(st, after, succs, i) ==
  IF i > Len(succs) THEN st
  ELSE LET succ == succs[i]
           st1 == IF ~(st.bbs[succ].assigned_before \subseteq after)
                  THEN [bbs |-> [st.bbs EXCEPT ![succ].assigned_before = @ \cap after],
                        queue |-> st.queue \cup {succ}]
                  ELSE st
       IN definite_assignment_succs(st1, after, succs, i + 1)

\* CFG._analyze_definite_assignment: one turn of the worklist loop
definite_assignment_step(bb) ==
  /\ phase = "defass" /\ bb \in queue
  /\ \E st \in {definite_assignment_succs([bbs |-> bbs, queue |-> queue \ {bb}],
                                           assigned_after(bbs, bb), bbs[bb].succs, 1)} :
       bbs' = st.bbs /\ queue' = st.queue
  /\ UNCHANGED <<pvars, ovars>>
  /\ UNCHANGED <<sig, globals, cur, stack, jumps, tmp, nid, cnt, phase, err,
                 whiles, branches, jmplog>>
  /\ UNCHANGED <<compiled, bfs, ctx, lastbb>>

\* CFG._analyze_maybe_assignment: the sets before the worklist loop
maybe_assignment_start(c) ==
  [b \in 1..Len(c) |-> [c[b] EXCEPT !.maybe_assigned_before = {}]]

\* CFG._analyze_maybe_assignment: the initialisation
maybe_assignment_init ==
  /\ phase = "defass" /\ queue = {}
  /\ bbs' = maybe_assignment_start(bbs)
  /\ queue' = AllBBs
  /\ phase' = "maybeass"
  /\ UNCHANGED <<pvars, ovars>>
  /\ UNCHANGED <<sig, globals, cur, stack, jumps, tmp, nid, cnt, err, whiles, branches, jmplog>>
  /\ UNCHANGED <<compiled, bfs, ctx, lastbb>>

RECURSIVE maybe_assignment_succs_requeued(_, _, _, _)
\* a loop over bb.successors that puts every successor back on the worklist
maybe_assignment_succs_requeued(st, maybe_ass_after, succs, i) ==
  IF i > Len(succs) THEN st
  ELSE maybe_assignment_succs_requeued(
         [bbs |-> [st.bbs EXCEPT ![succs[i]].maybe_assigned_before =
                     @ \cup (maybe_ass_after \ st.bbs[succs[i]].assigned_before)],
          queue |-> st.queue \cup {succs[i]}],
         maybe_ass_after, succs, i + 1)

RECURSIVE maybe_assignment_succs(_, _, _, _)
\* CFG._analyze_maybe_assignment: the loop over bb.successors
maybe_assignment_succs(st, maybe_ass_after, succs, i) ==
  IF i > Len(succs) THEN st
  ELSE LET succ == succs[i]
           maybe_ass == maybe_ass_after \ st.bbs[succ].assigned_before
           st1 == IF ~(maybe_ass \subseteq st.bbs[succ].maybe_assigned_before)
                  THEN [bbs |-> [st.bbs EXCEPT ![succ].maybe_assigned_before =
                                    @ \cup maybe_ass],
                        queue |-> st.queue \cup {succ}]
                  ELSE st
       IN maybe_assignment_succs(st1, maybe_ass_after, succs, i + 1)

\* CFG._analyze_maybe_assignment: one turn of the worklist loop
maybe_assignment_step(bb) ==
  /\ phase = "maybeass" /\ bb \in queue
  /\ \E st \in {maybe_assignment_succs(
                     [bbs |-> bbs, queue |-> queue \ {bb}],
                     bbs[bb].maybe_assigned_before \cup bbs[bb].assigned,
                     bbs[bb].succs, 1)} :
       bbs' = st.bbs /\ queue' = st.queue
  /\ UNCHANGED <<pvars, ovars>>
  /\ UNCHANGED <<sig, globals, cur, stack, jumps, tmp, nid, cnt, phase, err,
                 whiles, branches, jmplog>>
  /\ UNCHANGED <<compiled, bfs, ctx, lastbb>>

\* CFG.analyze returns
analyze_end ==
  /\ phase = "maybeass" /\ queue = {}
  /\ phase' = "analyzed"
  /\ UNCHANGED <<pvars, ovars>>
  /\ UNCHANGED bvars
  /\ UNCHANGED <<err, queue, compiled, bfs, ctx, lastbb>>

SetMin(S) == CHOOSE x \in S : \A y \in S : x <= y
SetMax(S) == CHOOSE x \in S : \A y \in S : x >= y

\* queue.pop() under a policy: the BB with the least or with the greatest idx
Pop(S, policy) == IF policy = "min" THEN SetMin(S) ELSE SetMax(S)

RECURSIVE run_liveness(_, _)
\* CFG._analyze_liveness: the worklist loop run to its end
run_liveness(st, policy) ==
  IF st.queue = {} THEN st.bbs
  ELSE LET bb == Pop(st.queue, policy)
       IN run_liveness(liveness_preds([bbs |-> st.bbs, queue |-> st.queue \ {bb}],
                                      bb, st.bbs[bb].preds, 1), policy)

RECURSIVE run_definite_assignment(_, _)
\* CFG._analyze_definite_assignment: the worklist loop run to its end
run_definite_assignment(st, policy) ==
  IF st.queue = {} THEN st.bbs
  ELSE LET bb == Pop(st.queue, policy)
       IN run_definite_assignment(
            definite_assignment_succs([bbs |-> st.bbs, queue |-> st.queue \ {bb}],
                                      assigned_after(st.bbs, bb),
                                      st.bbs[bb].succs, 1), policy)

RECURSIVE run_maybe_assignment(_, _)
\* CFG._analyze_maybe_assignment: the worklist loop run to its end
run_maybe_assignment(st, policy) ==
  IF st.queue = {} THEN st.bbs
  ELSE LET bb == Pop(st.queue, policy)
       IN run_maybe_assignment(
            maybe_assignment_succs([bbs |-> st.bbs, queue |-> st.queue \ {bb}],
                                   st.bbs[bb].maybe_assigned_before \cup st.bbs[bb].assigned,
                                   st.bbs[bb].succs, 1), policy)

\* CFG.analyze, the three passes in one step
analyze(policy) ==
  /\ phase = "built"
  /\ LET c1 == run_liveness([bbs |-> liveness_start(bbs), queue |-> AllBBs], policy)
         c2 == run_definite_assignment(
                 [bbs |-> definite_assignment_start(c1), queue |-> AllBBs], policy)
     IN bbs' = run_maybe_assignment(
                 [bbs |-> maybe_assignment_start(c2), queue |-> AllBBs], policy)
  /\ phase' = "analyzed"
  /\ UNCHANGED <<pvars, ovars>>
  /\ UNCHANGED <<sig, globals, cur, stack, jumps, tmp, nid, cnt, err, whiles, branches, jmplog>>
  /\ UNCHANGED <<queue, compiled, bfs, ctx, lastbb>>

----------------------------------------------------------------------------
(* SpecAnalysis: the builder and the three analyses, the worklists taken   *)
(* in every order                                                          *)

AnalysisStmts ==
  { If(Name("a")), While(Name("a")), Break, Continue, Return(Name("x")),
    Assign("x", Name("y")), Assign("y", Const("1")), AugAssign("x", Const("1")) }

AnalysisSigs ==
  { [inputs |-> <<[name |-> "a", ty |-> "bool"]>>, num_returns |-> 0, return_ty |-> "None"],
    [inputs |-> <<[name |-> "a", ty |-> "bool"]>>, num_returns |-> 1, return_ty |-> "int"] }

InitAnalysis == \E s \in AnalysisSigs : InitWith(s, {})

NextAnalysis ==
  \/ \E node \in AnalysisStmts :
        /\ nid < MaxStmtsAnalysis
        /\ \/ visit_Assign(node)
           \/ visit_AugAssign(node)
           \/ visit_If(node)
           \/ visit_While(node)
           \/ visit_Continue(node)
           \/ visit_Break(node)
           \/ visit_Return(node)
  \/ nid < MaxStmtsAnalysis /\ visit_stmts_unreachable
  \/ visit_If_orelse
  \/ visit_If_merge
  \/ visit_While_end
  \/ build_end
  \/ liveness_init
  \/ \E bb \in AllBBs : liveness_step(bb)
  \/ definite_assignment_init
  \/ \E bb \in AllBBs : definite_assignment_step(bb)
  \/ maybe_assignment_init
  \/ \E bb \in AllBBs : maybe_assignment_step(bb)
  \/ analyze_end

SpecAnalysis == InitAnalysis /\ [][NextAnalysis]_vars

----------------------------------------------------------------------------
(* Type checking of the statements of a BB (StmtChecker, ExprSynthesizer). *)
(* A Variable is [name, ty, defined_at, used]: defined_at and used are     *)
(* statement ids, used = 0 stands for None; Context.locals is a set of     *)
(* Variables with one Variable for a name.                                 *)

Linear(ty) == ty = "qubit"

VarNames(locals) == {v.name : v \in locals}
Lookup(locals, x) == CHOOSE v \in locals : v.name = x
Bind(locals, v) == {w \in locals : w.name # v.name} \cup {v}

Err(kind, x, stage) == [kind |-> kind, var |-> x, stage |-> stage]

\* the result type of the functions declared in the globals
FnRet(f) ==
  CASE f = "new_qubit" -> "qubit"
    [] f = "measure" -> "bool"
    [] OTHER -> "int"

RECURSIVE Synth(_, _, _)
RECURSIVE SynthList(_, _, _)
\* ExprSynthesizer.synthesize: the type of an expression; every occurrence of a
\* linear local consumes it, a second one is an error
Synth(e, locals, at) ==
  CASE e.k = "Name" ->
         IF e.id \in VarNames(locals)
         THEN LET v == Lookup(locals, e.id)
              IN IF Linear(v.ty) /\ v.used # 0
                 THEN [ty |-> v.ty, locals |-> locals,
                       err |-> Err("was already used", e.id, "stmt")]
                 ELSE [ty |-> v.ty,
                       locals |-> IF Linear(v.ty)
                                  THEN Bind(locals, [v EXCEPT !.used = at])
                                  ELSE locals,
                       err |-> NoErr]
         ELSE IF e.id \in globals
         THEN [ty |-> "function", locals |-> locals, err |-> NoErr]
         ELSE [ty |-> "None", locals |-> locals,
               err |-> Err("internal: unbound name", e.id, "stmt")]
    [] e.k = "Constant" ->
         [ty |-> IF e.value \in {"True", "False"} THEN "bool" ELSE "int",
          locals |-> locals, err |-> NoErr]
    [] e.k = "Call" ->
         LET f == Synth(Name(e.func), locals, at)
         IN IF f.err # NoErr THEN f
            ELSE IF f.ty # "function"
            THEN [f EXCEPT !.err = Err("is not callable", e.func, "stmt")]
            ELSE LET r == SynthList(e.args, f.locals, at)
                 IN [ty |-> FnRet(e.func), locals |-> r.locals, err |-> r.err]
    [] e.k = "UnaryOp" ->
         [Synth(e.operand, locals, at) EXCEPT !.ty = "bool"]
    [] e.k = "Compare" /\ Len(e.comparators) = 1 ->
         LET r == SynthList(<<e.left>> \o e.comparators, locals, at)
         IN [ty |-> "bool", locals |-> r.locals, err |-> r.err]
    [] OTHER ->
         [ty |-> "None", locals |-> locals,
          err |-> Err("internal: expression not flattened", "", "stmt")]

SynthList(es, locals, at) ==
  IF es = <<>> THEN [locals |-> locals, err |-> NoErr]
  ELSE LET r == Synth(Head(es), locals, at)
       IN IF r.err # NoErr THEN [locals |-> r.locals, err |-> r.err]
          ELSE SynthList(Tail(es), r.locals, at)

\* StmtChecker: binding a name; an unused linear Variable must not be overwritten
BindTarget(x, ty, locals, at) ==
  IF /\ x \in VarNames(locals)
     /\ Linear(Lookup(locals, x).ty)
     /\ Lookup(locals, x).used = 0
  THEN [locals |-> locals, err |-> Err("is not used", x, "stmt")]
  ELSE [locals |-> Bind(locals, [name |-> x, ty |-> ty, defined_at |-> at, used |-> 0]),
        err |-> NoErr]

\* StmtChecker.visit_Assign: r is the result of the synthesis of the value
CheckAssign(stmt, r) ==
  IF r.err # NoErr THEN [locals |-> r.locals, err |-> r.err]
  ELSE BindTarget(stmt.target, r.ty, r.locals, stmt.nid)

\* StmtChecker.visit_AugAssign: r is the result of the synthesis of the operands
CheckAugAssign(stmt, locals, r) ==
  IF r.err # NoErr THEN r
  ELSE IF stmt.target \notin VarNames(locals)
  THEN [r EXCEPT !.err = Err("is not assignable", stmt.target, "stmt")]
  ELSE BindTarget(stmt.target, Lookup(locals, stmt.target).ty, r.locals, stmt.nid)

\* StmtChecker.visit_Return: r is the result of the synthesis of the value
CheckReturn(stmt, r) ==
  IF r.err # NoErr THEN [locals |-> r.locals, err |-> r.err]
  ELSE IF r.ty # sig.return_ty
  THEN [locals |-> r.locals, err |-> Err("return type mismatch", "", "stmt")]
  ELSE IF sig.num_returns = 0 THEN [locals |-> r.locals, err |-> NoErr]
  ELSE BindTarget(return_var(0), r.ty, r.locals, stmt.nid)

\* StmtChecker.visit
CheckStmt(stmt, locals) ==
  CASE stmt.k = "Assign" -> CheckAssign(stmt, Synth(stmt.value, locals, stmt.nid))
    [] stmt.k = "AugAssign" ->
         CheckAugAssign(stmt, locals,
                        SynthList(<<stmt.value, Name(stmt.target)>>, locals, stmt.nid))
    [] stmt.k = "Return" ->
         CheckReturn(stmt, IF stmt.value = NoExpr
                           THEN [ty |-> "None", locals |-> locals, err |-> NoErr]
                           ELSE Synth(stmt.value, locals, stmt.nid))

RECURSIVE check_stmts(_, _)
\* StmtChecker.check_stmts: the statements after one whose result is r
check_stmts_rest(r, stmts) ==
  IF r.err # NoErr THEN r ELSE check_stmts(stmts, r.locals)

\* StmtChecker.check_stmts
check_stmts(stmts, locals) ==
  IF stmts = <<>> THEN [locals |-> locals, err |-> NoErr]
  ELSE check_stmts_rest(CheckStmt(Head(stmts), locals), Tail(stmts))

\* to_bool: r is the result of the synthesis of the branch predicate
to_bool(r) ==
  IF r.err # NoErr THEN [locals |-> r.locals, err |-> [r.err EXCEPT !.stage = "pred"]]
  ELSE IF r.ty \notin {"bool", "int"}
  THEN [locals |-> r.locals, err |-> Err("is not a bool", "", "pred")]
  ELSE [locals |-> r.locals, err |-> NoErr]

\* check_bb: the branch predicate is synthesized and turned into a bool
check_branch_pred(bb, locals) ==
  IF Len(bbs[bb].succs) > 1
  THEN IF bbs[bb].branch_pred = NoExpr
       THEN [locals |-> locals, err |-> Err("AssertionError", "", "pred")]
       ELSE to_bool(Synth(bbs[bb].branch_pred, locals, bbs[bb].pred_at))
  ELSE [locals |-> locals, err |-> NoErr]

----------------------------------------------------------------------------
(* check_bb, check_rows_match, check_cfg *)

\* a first loop without the check of used linear variables
LiveErrs_undefined_only(succ, locals) ==
  {Err(IF p[1] \in bbs[p[2]].maybe_assigned_before
       THEN "is not defined on all control-flow paths" ELSE "is not defined",
       p[1], "succ") :
     p \in {p \in bbs[succ].live_before :
              p[1] \notin VarNames(locals) /\ p[1] \notin globals}}

\* a first loop that never looks at maybe_ass_before
LiveErrs_never_maybe(succ, locals) ==
  {Err("is not defined", p[1], "succ") :
     p \in {p \in bbs[succ].live_before :
              p[1] \notin VarNames(locals) /\ p[1] \notin globals}}
  \cup
  {Err("was already used", x, "succ") :
     x \in {x \in Keys(bbs[succ].live_before) \cap VarNames(locals) :
              Linear(Lookup(locals, x).ty) /\ Lookup(locals, x).used # 0}}

\* check_bb: the variables live before succ that raise in the first loop
LiveErrs(succ, locals) ==
  {Err(IF p[1] \in bbs[p[2]].maybe_assigned_before
       THEN "is not defined on all control-flow paths" ELSE "is not defined",
       p[1], "succ") :
     p \in {p \in bbs[succ].live_before :
              p[1] \notin VarNames(locals) /\ p[1] \notin globals}}
  \cup
  {Err("was already used", x, "succ") :
     x \in {x \in Keys(bbs[succ].live_before) \cap VarNames(locals) :
              Linear(Lookup(locals, x).ty) /\ Lookup(locals, x).used # 0}}

\* a check_bb without the second loop
UnusedErrs_skipped(succ, locals) == {}

\* check_bb: the locals that raise in the second loop
UnusedErrs(succ, locals) ==
  {Err("is not used on all control-flow paths", v.name, "succ") :
     v \in {v \in locals : /\ Linear(v.ty) /\ v.used = 0
                           /\ v.name \notin Keys(bbs[succ].live_before)}}

\* a check_bb that looks at the first successor only
SuccErrs_first_only(succs, i, locals) ==
  IF i > Len(succs) THEN {}
  ELSE IF LiveErrs(succs[i], locals) # {} THEN LiveErrs(succs[i], locals)
  ELSE UnusedErrs(succs[i], locals)

RECURSIVE SuccErrs(_, _, _)
\* check_bb: the loop over bb.successors; the errors it can raise first (a dict
\* is iterated in the order of its insertions, which is left open here)
SuccErrs(succs, i, locals) ==
  IF i > Len(succs) THEN {}
  ELSE IF LiveErrs(succs[i], locals) # {} THEN LiveErrs(succs[i], locals)
  ELSE IF UnusedErrs(succs[i], locals) # {} THEN UnusedErrs(succs[i], locals)
  ELSE SuccErrs(succs, i + 1, locals)

\* check_bb: the check of the entry BB
EntryErrs(bb) ==
  IF bb # EntryBB THEN {}
  ELSE IF Len(bbs[bb].preds) # 0 THEN {Err("AssertionError", "", "entry")}
  ELSE {Err("is not defined", x, "entry") :
          x \in {x \in bbs[bb].used : x \notin cfg_ass_before_entry /\ x \notin globals}}

\* check_bb: the signature of the BB
outputs(bb, locals) ==
  [i \in 1..Len(bbs[bb].succs) |->
     {Lookup(locals, x) : x \in Keys(bbs[bbs[bb].succs[i]].live_before) \cap VarNames(locals)}]

\* check_bb from the loop over bb.successors on; r2 is the result of the check of
\* the branch predicate
check_bb_succs(bb, r2) ==
  IF r2.err # NoErr THEN [errs |-> {r2.err}, locals |-> r2.locals]
  ELSE [errs |-> SuccErrs(bbs[bb].succs, 1, r2.locals), locals |-> r2.locals]

\* check_bb from the branch predicate on; r1 is the result of check_stmts
check_bb_pred(bb, r1) ==
  IF r1.err # NoErr THEN [errs |-> {r1.err}, locals |-> r1.locals]
  ELSE check_bb_succs(bb, check_branch_pred(bb, r1.locals))

\* check_bb: [errs, locals]; errs are the errors it can raise, none if it
\* returns; locals is Context.locals when it raises or returns
check_bb(bb, inputs) ==
  IF EntryErrs(bb) # {} THEN [errs |-> EntryErrs(bb), locals |-> inputs]
  ELSE check_bb_pred(bb, check_stmts(bbs[bb].stmts, inputs))

\* the dict compiled keeps its entries in the order of their insertion: seq is
\* the position of the entry of a BB, 0 when it has none
NotChecked == [done |-> FALSE, input_row |-> {}, output_rows |-> <<>>, seq |-> 0]
Checked(bb, inputs, locals) ==
  [done |-> TRUE, input_row |-> inputs, output_rows |-> outputs(bb, locals),
   seq |-> Cardinality({b \in DOMAIN compiled : compiled[b].done}) + 1]

\* check_rows_match: the errors it can raise, none if the rows match
check_rows_match(row1, row2, bb) ==
  IF VarNames(row1) # VarNames(row2) THEN {Err("AssertionError", "", "rows")}
  ELSE {LET v1 == Lookup(row1, x)
            v2 == Lookup(row2, x)
            swap == v2.defined_at < v1.defined_at
        IN [kind |-> "can refer to different types",
            var |-> IF x \in Range(TmpNames) \cup Range(RetNames) THEN "Expression" ELSE x,
            stage |-> "rows",
            first |-> IF swap THEN v2.defined_at ELSE v1.defined_at,
            second |-> IF swap THEN v1.defined_at ELSE v2.defined_at] :
          x \in {x \in VarNames(row1) : Lookup(row1, x).ty # Lookup(row2, x).ty}}

\* check_cfg: the inputs of the function as the row of the entry BB
InputRow ==
  {[name |-> sig.inputs[i].name, ty |-> sig.inputs[i].ty, defined_at |-> 0, used |-> 0] :
     i \in 1..Len(sig.inputs)}

\* check_cfg: the row handed to the target of an edge: used is reset to None
edge_row(pred, num_output) ==
  {[v EXCEPT !.used = 0] : v \in compiled[pred].output_rows[num_output]}

\* the edges of a BB, the last successor first
edges_of_reversed(bb) ==
  [i \in 1..Len(bbs[bb].succs) |->
     <<bb, Len(bbs[bb].succs) + 1 - i, bbs[bb].succs[Len(bbs[bb].succs) + 1 - i]>>]

\* check_cfg: the edges (pred, num_output, bb) of a checked BB, by enumerate
edges_of(bb) == [i \in 1..Len(bbs[bb].succs) |-> <<bb, i, bbs[bb].succs[i]>>]

\* check_cfg: the entry BB is checked
check_cfg_entry ==
  /\ phase = "analyzed"
  /\ \E r \in {check_bb(EntryBB, InputRow)} :
       /\ ctx' = r.locals
       /\ lastbb' = EntryBB
       /\ IF r.errs # {}
          THEN /\ \E e \in r.errs : err' = e
               /\ phase' = "error"
               /\ compiled' = [b \in AllBBs |-> NotChecked]
               /\ bfs' = <<>>
          ELSE /\ compiled' = [b \in AllBBs |->
                                 IF b = EntryBB THEN Checked(EntryBB, InputRow, r.locals)
                                 ELSE NotChecked]
               /\ bfs' = edges_of(EntryBB)
               /\ phase' = "check"
               /\ err' = err
  /\ UNCHANGED <<pvars, ovars>>
  /\ UNCHANGED bvars
  /\ UNCHANGED queue

\* check_cfg: one turn of the loop over the control-flow edges
check_cfg_edge ==
  /\ phase = "check" /\ bfs # <<>>
  /\ LET pred == bfs[1][1]
         num_output == bfs[1][2]
         bb == bfs[1][3]
         input_row == edge_row(pred, num_output)
     IN IF compiled[bb].done
        THEN \E errs \in {check_rows_match(input_row, compiled[bb].input_row, bb)} :
               /\ IF errs # {}
                  THEN (\E e \in errs : err' = e) /\ phase' = "error"
                  ELSE UNCHANGED <<err, phase>>
               /\ bfs' = Tail(bfs)
               /\ UNCHANGED <<compiled, ctx, lastbb>>
        ELSE \E r \in {check_bb(bb, input_row)} :
               /\ ctx' = r.locals
               /\ lastbb' = bb
               /\ IF r.errs # {}
                  THEN /\ \E e \in r.errs : err' = e
                       /\ phase' = "error"
                       /\ bfs' = Tail(bfs)
                       /\ compiled' = compiled
                  ELSE /\ compiled' = [compiled EXCEPT ![bb] = Checked(bb, input_row, r.locals)]
                       /\ bfs' = Tail(bfs) \o edges_of(bb)
                       /\ UNCHANGED <<err, phase>>
  /\ UNCHANGED <<pvars, ovars>>
  /\ UNCHANGED bvars
  /\ UNCHANGED queue

\* check_cfg: the loop is over, the checked CFG is put together
check_cfg_end ==
  /\ phase = "check" /\ bfs = <<>>
  /\ IF \E b \in AllBBs : ~compiled[b].done
     THEN phase' = "error" /\ err' = Err("KeyError", "", "end")
     ELSE phase' = "done" /\ err' = err
  /\ UNCHANGED <<pvars, ovars>>
  /\ UNCHANGED bvars
  /\ UNCHANGED <<queue, compiled, bfs, ctx, lastbb>>

----------------------------------------------------------------------------
(* Spec: the whole pipeline on bodies that create and consume linear       *)
(* values.  The analyses run in one step, their worklists taken from       *)
(* either end; SpecAnalysis takes them in every order.                     *)

CheckStmtsAlphabet ==
  { If(Const("True")), If(Call("measure", <<Name("q")>>)), While(Const("True")), Break,
    Assign("q", Call("new_qubit", <<>>)),
    Assign("x", Call("measure", <<Name("q")>>)),
    Assign("q", Name("x")),
    Return(Name("q")) }

CheckSigs ==
  { [inputs |-> <<>>, num_returns |-> 0, return_ty |-> "None"],
    [inputs |-> <<[name |-> "q", ty |-> "qubit"]>>, num_returns |-> 1, return_ty |-> "qubit"] }

CheckGlobals == {"new_qubit", "measure"}

Init == \E s \in CheckSigs : InitWith(s, CheckGlobals)

Next ==
  \/ \E node \in CheckStmtsAlphabet :
        /\ nid < MaxStmts
        /\ \/ visit_Assign(node)
           \/ visit_If(node)
           \/ visit_While(node)
           \/ visit_Break(node)
           \/ visit_Return(node)
  \/ nid < MaxStmts /\ visit_stmts_unreachable
  \/ visit_If_orelse
  \/ visit_If_merge
  \/ visit_While_end
  \/ build_end
  \/ \E policy \in {"min", "max"} : analyze(policy)
  \/ check_cfg_entry
  \/ check_cfg_edge
  \/ check_cfg_end

Spec == Init /\ [][Next]_vars

----------------------------------------------------------------------------
(* Properties of the analyses *)

Succs(b) == Range(bbs[b].succs)

RECURSIVE ReachFix(_)
ReachFix(S) ==
  LET T == S \cup UNION {Succs(b) : b \in S}
  IN IF T = S THEN S ELSE ReachFix(T)

\* the BBs reachable from b along successor edges
ReachableFrom(b) == ReachFix({b})

RECURSIVE LiveFix(_, _)
LiveFix(x, S) ==
  LET T == S \cup {p \in AllBBs : x \notin bbs[p].assigned /\ Succs(p) \cap S # {}}
  IN IF T = S THEN S ELSE LiveFix(x, T)

\* the BBs b with a path b = b0 -> ... -> bn, x used in bn and assigned in no bi, i < n
LivePath(x) == LiveFix(x, {b \in AllBBs : x \in bbs[b].used})

RECURSIVE UnassignedFix(_, _)
UnassignedFix(x, S) ==
  LET T == S \cup UNION {Succs(p) : p \in {p \in S : x \notin bbs[p].assigned}}
  IN IF T = S THEN S ELSE UnassignedFix(x, T)

\* the BBs b with a path from the entry BB to b on which no BB before b assigns x
UnassignedPath(x) == UnassignedFix(x, {EntryBB})

LivenessDone ==
  \/ phase = "liveness" /\ queue = {}
  \/ phase \in {"defass", "maybeass", "analyzed"}

DefiniteAssignmentDone ==
  \/ phase = "defass" /\ queue = {}
  \/ phase \in {"maybeass", "analyzed"}

\* C5: after _analyze_liveness, x is live before b exactly when a path from b
\* reaches a use of x with no assignment of x before it; live_before(exit) is
\* used(exit), and along every edge p -> b live_before(p) contains used(p) and
\* what is live before b and not assigned in p
C5_LivenessIsPathLiveness ==
  LivenessDone =>
    /\ \A b \in AllBBs :
         Keys(bbs[b].live_before) = {x \in all_vars(bbs) : b \in LivePath(x)}
    /\ Keys(bbs[ExitBB].live_before) = bbs[ExitBB].used
    /\ \A p \in AllBBs : \A b \in Succs(p) :
         (bbs[p].used \cup (Keys(bbs[b].live_before) \ bbs[p].assigned))
            \subseteq Keys(bbs[p].live_before)

\* C5 witness: after the analysis of a CFG with a loop, a name is live before a
\* BB that does not use it, and an assignment in another BB ends its liveness
C5_Witness ==
  /\ LivenessDone
  /\ whiles # <<>>
  /\ \E x \in all_vars(bbs) :
       /\ \E b \in AllBBs : x \in Keys(bbs[b].live_before) /\ x \notin bbs[b].used
       /\ \E p \in AllBBs :
            /\ x \in bbs[p].assigned
            /\ x \notin Keys(bbs[p].live_before)
            /\ \E b \in Succs(p) : x \in Keys(bbs[b].live_before)

\* C6: after _analyze_definite_assignment, assigned_before(b) of a reachable BB
\* holds exactly the names of assigned_before(entry) and the names assigned
\* before b on every path from the entry BB to b
C6_DefiniteAssignmentIsAllPaths ==
  DefiniteAssignmentDone =>
    \A b \in ReachableFrom(EntryBB) :
      bbs[b].assigned_before =
        {x \in all_vars(bbs) :
           x \in bbs[EntryBB].assigned_before \/ b \notin UnassignedPath(x)}

\* C6 witness: a BB with two predecessors, entered with one name assigned on
\* every path and another name assigned on one path only
C6_Witness ==
  /\ DefiniteAssignmentDone
  /\ \E b \in ReachableFrom(EntryBB) :
       /\ Cardinality(Range(bbs[b].preds)) >= 2
       /\ \E x \in bbs[b].assigned_before : TRUE
       /\ \E y \in all_vars(bbs) \ bbs[b].assigned_before :
            \E p \in Range(bbs[b].preds) :
              y \in bbs[p].assigned \cup bbs[p].assigned_before

----------------------------------------------------------------------------
(* Properties of the CFG that CFGBuilder builds *)

RECURSIVE Atoms(_)
RECURSIVE AtomsOfList(_)
\* the operands of a condition that are evaluated as a whole
Atoms(e) ==
  CASE e.k = "BoolOp" -> AtomsOfList(e.values)
    [] e.k = "UnaryOp" -> Atoms(e.operand)
    [] e.k = "Compare" /\ Len(e.comparators) > 1 ->
         LET cs == <<e.left>> \o e.comparators
         IN {Compare(cs[i], <<cs[i + 1]>>) : i \in 1..(Len(cs) - 1)}
    [] e.k = "IfExp" -> Atoms(e.test) \cup Atoms(e.body) \cup Atoms(e.orelse)
    [] OTHER -> {e}

AtomsOfList(es) == IF es = <<>> THEN {} ELSE Atoms(Head(es)) \cup AtomsOfList(Tail(es))

RECURSIVE PyEval(_, _)
RECURSIVE PyEvalBoolOp(_, _, _)
RECURSIVE PyEvalChain(_, _)
\* Python's evaluation of a condition under the valuation v of its atoms: the
\* value, and the atoms evaluated in the order of their evaluation
PyEval(e, v) ==
  CASE e.k = "BoolOp" -> PyEvalBoolOp(e.op, e.values, v)
    [] e.k = "UnaryOp" ->
         LET r == PyEval(e.operand, v) IN [val |-> ~r.val, trace |-> r.trace]
    [] e.k = "Compare" /\ Len(e.comparators) > 1 ->
         PyEvalChain(<<e.left>> \o e.comparators, v)
    [] e.k = "IfExp" ->
         LET t == PyEval(e.test, v)
             r == IF t.val THEN PyEval(e.body, v) ELSE PyEval(e.orelse, v)
         IN [val |-> r.val, trace |-> t.trace \o r.trace]
    [] OTHER -> [val |-> v[e], trace |-> <<e>>]

\* `and` stops at the first false operand, `or` at the first true one
PyEvalBoolOp(op, values, v) ==
  LET r == PyEval(Head(values), v)
  IN IF Len(values) = 1 \/ r.val = (op = "Or") THEN r
     ELSE LET rest == PyEvalBoolOp(op, Tail(values), v)
          IN [val |-> rest.val, trace |-> r.trace \o rest.trace]

\* a chain c1 < c2 < ... stops at the first comparison that is false
PyEvalChain(cs, v) ==
  LET a == Compare(cs[1], <<cs[2]>>)
  IN IF Len(cs) = 2 \/ ~v[a] THEN [val |-> v[a], trace |-> <<a>>]
     ELSE LET rest == PyEvalChain(Tail(cs), v)
          IN [val |-> rest.val, trace |-> <<a>> \o rest.trace]

RECURSIVE Run(_, _, _, _, _)
\* the execution of the CFG from bb under v until one of the two targets is
\* reached: a BB with a branch predicate goes to successor 0 when the predicate
\* is true and to successor 1 when it is false
Run(bb, true_bb, false_bb, v, fuel) ==
  IF bb \in {true_bb, false_bb} THEN [end |-> bb, trace |-> <<>>, path |-> <<bb>>]
  ELSE IF \/ fuel = 0
          \/ bbs[bb].branch_pred \notin DOMAIN v
          \/ Len(bbs[bb].succs) # 2
       THEN [end |-> NoBB, trace |-> <<>>, path |-> <<bb>>]
  ELSE LET p == bbs[bb].branch_pred
           r == Run(bbs[bb].succs[IF v[p] THEN 1 ELSE 2], true_bb, false_bb, v, fuel - 1)
       IN [end |-> r.end, trace |-> <<p>> \o r.trace, path |-> <<bb>> \o r.path]

\* the conditions lowered so far: of if statements and short-circuit return
\* values (branches) and of while loops (whiles)
Lowerings ==
  Range(branches) \cup
  {[bb |-> whiles[i].head, test |-> whiles[i].test,
    true_bb |-> whiles[i].body, false_bb |-> whiles[i].tail] : i \in DOMAIN whiles}

Valuations(e) == [Atoms(e) -> BOOLEAN]

RunOf(br, v) == Run(br.bb, br.true_bb, br.false_bb, v, Len(bbs))

\* the edges that the executions of a lowered condition take
RunEdges(br) ==
  UNION {LET path == RunOf(br, v).path
         IN {<<path[i], path[i + 1]>> : i \in 1..(Len(path) - 1)} : v \in Valuations(br.test)}

\* the BBs after the first in which an operand of the condition is evaluated
OperandBBs(br) ==
  UNION {LET path == RunOf(br, v).path
         IN {path[i] : i \in 2..(Len(path) - 1)} : v \in Valuations(br.test)}

\* C8: a lowered condition runs as Python evaluates it: the operands are
\* evaluated left to right, an operand is evaluated only when the operands
\* before it leave the value open, the execution ends in true_bb or false_bb as
\* the value says, and a BB that evaluates a later operand is entered only over
\* edges of these executions
C8_ShortCircuitInCFG ==
  \A br \in Lowerings :
    /\ \A v \in Valuations(br.test) :
         LET py == PyEval(br.test, v)
             run == RunOf(br, v)
         IN /\ run.trace = py.trace
            /\ run.end = IF py.val THEN br.true_bb ELSE br.false_bb
    /\ \A e \in OperandBBs(br) :
         \A p \in Range(bbs[e].preds) : <<p, e>> \in RunEdges(br)

\* C8 witness: a nested condition and a chained comparison have been lowered,
\* and under some valuation the right operand of an `and` is not evaluated
C8_Witness ==
  /\ \E br \in Lowerings :
       /\ br.test.k = "BoolOp" /\ br.test.op = "And"
       /\ \E v \in Valuations(br.test) :
            Len(RunOf(br, v).trace) < Cardinality(Atoms(br.test))
  /\ \E br \in Lowerings : br.test.k = "BoolOp" /\ br.test.values[1].k = "BoolOp"
  /\ \E br \in Lowerings : br.test.k = "Compare"

\* C9: a BB with a branch predicate has two successors, the first taken when
\* the predicate is true: a condition e has (true_bb, false_bb) as successors,
\* a condition `not e` has them swapped and stores e
C9_SuccessorOrder ==
  /\ \A b \in AllBBs :
       bbs[b].branch_pred # NoExpr =>
         /\ Len(bbs[b].succs) = 2
         /\ ~(bbs[b].branch_pred.k = "UnaryOp" /\ bbs[b].branch_pred.op = "Not")
  /\ \A br \in Lowerings :
       /\ br.test.k = "Name" =>
            /\ bbs[br.bb].branch_pred = br.test
            /\ bbs[br.bb].succs = <<br.true_bb, br.false_bb>>
       /\ (br.test.k = "UnaryOp" /\ br.test.operand.k = "Name") =>
            /\ bbs[br.bb].branch_pred = br.test.operand
            /\ bbs[br.bb].succs = <<br.false_bb, br.true_bb>>

\* C9 witness: a condition e and a condition `not e` have been lowered
C9_Witness ==
  /\ \E br \in Lowerings : br.test.k = "Name" /\ bbs[br.bb].branch_pred = br.test
  /\ \E br \in Lowerings : br.test.k = "UnaryOp" /\ bbs[br.bb].branch_pred = br.test.operand

\* C10: the BB before a while loop has the head as its only successor, the head
\* goes to the body when the test is true and to the tail when it is false, a
\* continue goes to the head and a break to the tail of the innermost loop
\* around it, a body that falls through goes back to the head, and the
\* statements after the loop are built in the tail
C10_WhileStructure ==
  /\ \A i \in DOMAIN whiles :
       LET w == whiles[i]
       IN /\ bbs[w.pre].succs = <<w.head>>
          /\ \A v \in Valuations(w.test) :
               Run(w.head, w.body, w.tail, v, Len(bbs)).end =
                 IF PyEval(w.test, v).val THEN w.body ELSE w.tail
          /\ w.done => w.after = w.tail
          /\ (w.done /\ w.fall # NoBB) => bbs[w.fall].succs = <<w.head>>
  /\ \A j \in DOMAIN jmplog :
       LET jmp == jmplog[j]
       IN /\ jmp.loop \in DOMAIN whiles
          /\ bbs[jmp.bb].succs =
               <<IF jmp.k = "Continue" THEN whiles[jmp.loop].head
                 ELSE whiles[jmp.loop].tail>>

\* C10 witness: a loop nested in a loop, a break of the inner and a continue of
\* the outer loop, and a loop whose body always jumps
C10_Witness ==
  /\ Len(whiles) >= 2
  /\ \E j1, j2 \in DOMAIN jmplog :
       /\ jmplog[j1].k = "Break" /\ jmplog[j2].k = "Continue"
       /\ jmplog[j1].loop # jmplog[j2].loop
  /\ \E i \in DOMAIN whiles : whiles[i].done /\ whiles[i].fall = NoBB
  /\ \A i \in DOMAIN whiles : whiles[i].done

----------------------------------------------------------------------------
(* SpecGlobals: the whole pipeline on bodies that assign a name that is    *)
(* also the name of a global                                               *)

MaxStmtsGlobals == 4

GlobalsStmts ==
  { If(Name("c")), Assign("g", Const("1")), Assign("x", Name("g")), Return(NoExpr) }

GlobalsSigs ==
  { [inputs |-> <<[name |-> "c", ty |-> "bool"]>>, num_returns |-> 0, return_ty |-> "None"] }

InitGlobals == \E s \in GlobalsSigs : InitWith(s, {"g"})

NextGlobals ==
  \/ \E node \in GlobalsStmts :
        /\ nid < MaxStmtsGlobals
        /\ \/ visit_Assign(node)
           \/ visit_If(node)
           \/ visit_Return(node)
  \/ nid < MaxStmtsGlobals /\ visit_stmts_unreachable
  \/ visit_If_orelse
  \/ visit_If_merge
  \/ build_end
  \/ \E policy \in {"min", "max"} : analyze(policy)
  \/ check_cfg_entry
  \/ check_cfg_edge
  \/ check_cfg_end

SpecGlobals == InitGlobals /\ [][NextGlobals]_vars

----------------------------------------------------------------------------
(* Properties of check_cfg *)

\* CFGBuilder.build has returned a CFG
Built ==
  \/ phase \in {"built", "liveness", "defass", "maybeass", "analyzed", "check", "done"}
  \/ phase = "error" /\ "stage" \in DOMAIN err

\* the last check_bb got as far as its loop over the successors: ctx holds the
\* locals at the end of the BB lastbb
EndOfBB ==
  /\ lastbb # NoBB
  /\ phase \in {"check", "done", "error"}
  /\ phase = "error" => err.stage \in {"succ", "rows", "end"}

\* check_bb has raised in its loop over the successors
RejectedAtEnd == phase = "error" /\ lastbb # NoBB /\ err.stage = "succ"

LiveBefore(b) == Keys(bbs[b].live_before)

\* a linear local that is unused at the end of the BB and not live before its
\* i-th successor
UnusedNotLive(i) ==
  {v.name : v \in {v \in ctx : /\ Linear(v.ty) /\ v.used = 0
                              /\ v.name \notin LiveBefore(bbs[lastbb].succs[i])}}

\* a linear local that is used at the end of the BB and live before its i-th
\* successor
UsedLive(i) ==
  {v.name : v \in {v \in ctx : /\ Linear(v.ty) /\ v.used # 0
                              /\ v.name \in LiveBefore(bbs[lastbb].succs[i])}}

\* a name live before the i-th successor that is neither a local nor a global
UndefinedLive(i) ==
  {x \in LiveBefore(bbs[lastbb].succs[i]) : x \notin VarNames(ctx) /\ x \notin globals}

SuccIdx == 1..Len(bbs[lastbb].succs)

NotDefinedKinds == {"is not defined", "is not defined on all control-flow paths"}

----------------------------------------------------------------------------
(* C1: the consumption of linear values along a path.  An environment is a *)
(* set of [name, ty, cnt]: cnt counts the occurrences that consumed the    *)
(* value the name holds.                                                   *)

EnvNames(env) == {v.name : v \in env}
EnvGet(env, x) == CHOOSE v \in env : v.name = x

RECURSIVE PathEval(_, _)
RECURSIVE PathEvalList(_, _)
\* the evaluation of an expression on a path: every occurrence of a name that
\* holds a linear value consumes the value
PathEval(e, env) ==
  CASE e.k = "Name" ->
         IF e.id \in EnvNames(env)
         THEN LET v == EnvGet(env, e.id)
              IN [ty |-> v.ty,
                  env |-> IF Linear(v.ty)
                          THEN (env \ {v}) \cup {[v EXCEPT !.cnt = @ + 1]}
                          ELSE env]
         ELSE [ty |-> "function", env |-> env]
    [] e.k = "Constant" ->
         [ty |-> IF e.value \in {"True", "False"} THEN "bool" ELSE "int", env |-> env]
    [] e.k = "Call" -> [ty |-> FnRet(e.func), env |-> PathEvalList(e.args, env)]
    [] e.k = "UnaryOp" -> [ty |-> "bool", env |-> PathEval(e.operand, env).env]
    [] e.k = "Compare" ->
         [ty |-> "bool", env |-> PathEvalList(<<e.left>> \o e.comparators, env)]
    [] OTHER -> [ty |-> "None", env |-> env]

PathEvalList(es, env) ==
  IF es = <<>> THEN env ELSE PathEvalList(Tail(es), PathEval(Head(es), env).env)

\* a path state is [env, ok]: ok turns false when a linear value is overwritten
\* or left behind with a count of consumptions other than one
PathBind(st, x, ty) ==
  [env |-> {v \in st.env : v.name # x} \cup {[name |-> x, ty |-> ty, cnt |-> 0]},
   ok |-> st.ok /\ \A v \in st.env : (v.name = x /\ Linear(v.ty)) => v.cnt = 1]

PathStmt(stmt, st) ==
  CASE stmt.k = "Assign" ->
         LET r == PathEval(stmt.value, st.env)
         IN PathBind([st EXCEPT !.env = r.env], stmt.target, r.ty)
    [] stmt.k = "AugAssign" ->
         LET env1 == PathEvalList(<<stmt.value, Name(stmt.target)>>, st.env)
             ty == IF stmt.target \in EnvNames(st.env)
                   THEN EnvGet(st.env, stmt.target).ty ELSE "None"
         IN PathBind([st EXCEPT !.env = env1], stmt.target, ty)
    [] stmt.k = "Return" ->
         IF stmt.value = NoExpr THEN st
         ELSE LET r == PathEval(stmt.value, st.env)
              IN IF sig.num_returns = 0 THEN [st EXCEPT !.env = r.env]
                 ELSE PathBind([st EXCEPT !.env = r.env], return_var(0), r.ty)

RECURSIVE PathStmts(_, _)
PathStmts(stmts, st) ==
  IF stmts = <<>> THEN st ELSE PathStmts(Tail(stmts), PathStmt(Head(stmts), st))

\* the statements of a BB and then its branch predicate
PathBB(b, st) ==
  LET st1 == PathStmts(bbs[b].stmts, st)
  IN IF bbs[b].branch_pred = NoExpr THEN st1
     ELSE [st1 EXCEPT !.env = PathEval(bbs[b].branch_pred, st1.env).env]

\* the exit BB hands the return values to the caller, which consumes them; every
\* linear value must then have been consumed once
PathEnd(st) ==
  LET rets == [i \in 1..sig.num_returns |-> Name(return_var(i - 1))]
      env == PathEvalList(rets, st.env)
  IN st.ok /\ \A v \in env : Linear(v.ty) => v.cnt = 1

RECURSIVE SomePathBad(_, _, _)
\* an acyclic path that goes on from b through BBs not in visited to the exit BB
\* and consumes some linear value more than once or not at all
SomePathBad(b, visited, st) ==
  IF b = ExitBB THEN ~PathEnd(st)
  ELSE LET st1 == PathBB(b, st)
       IN \E s \in Succs(b) \ visited : SomePathBad(s, visited \cup {s}, st1)

PathStart == [env |-> {[name |-> v.name, ty |-> v.ty, cnt |-> 0] : v \in InputRow}, ok |-> TRUE]

\* C1: when check_cfg accepts a function, every linear value is consumed exactly
\* once on every acyclic path from the entry BB to the exit BB
C1_AcceptedIsLinear ==
  phase = "done" => ~SomePathBad(EntryBB, {EntryBB}, PathStart)

\* C1 witness: an accepted function with a loop and a branch, in which a linear
\* parameter is consumed and a linear value is created and handed from one BB
\* to the next
C1_Witness ==
  /\ phase = "done"
  /\ whiles # <<>> /\ branches # <<>>
  /\ \E v \in InputRow : Linear(v.ty)
  /\ \E b \in AllBBs \ {EntryBB} :
       /\ \E v \in compiled[b].input_row : Linear(v.ty) /\ v.defined_at # 0
       /\ \E v \in compiled[b].input_row : Linear(v.ty) /\ v.name \in bbs[b].used

\* C2: when check_cfg comes to a checked BB again over another edge, the output
\* row of the edge and the input row of the BB hold the same names
C2_RowsHaveSameNames ==
  (phase = "check" /\ bfs # <<>> /\ compiled[bfs[1][3]].done) =>
    VarNames(edge_row(bfs[1][1], bfs[1][2])) = VarNames(compiled[bfs[1][3]].input_row)

\* C3 as stated: a linear local unused at the end of a BB and not live before
\* one of its successors makes check_bb raise 'is not used on all control-flow
\* paths'
C3_UnusedRejectedWithMessage ==
  (EndOfBB /\ \E i \in SuccIdx : UnusedNotLive(i) # {}) =>
    (RejectedAtEnd /\ err.kind = "is not used on all control-flow paths")

\* C3 amended: such a local makes check_bb raise; with i the first successor
\* that has such a local, the error is 'is not used on all control-flow paths'
\* for a local of that kind unless a name live before one of the successors up
\* to i is undefined or a used linear local, which is then the error raised
C3_UnusedRejected ==
  (EndOfBB /\ \E i \in SuccIdx : UnusedNotLive(i) # {}) =>
    LET i == SetMin({i \in SuccIdx : UnusedNotLive(i) # {}})
    IN /\ RejectedAtEnd
       /\ IF \A j \in 1..i : UndefinedLive(j) = {} /\ UsedLive(j) = {}
          THEN /\ err.kind = "is not used on all control-flow paths"
               /\ err.var \in UnusedNotLive(i)
          ELSE err.kind \in NotDefinedKinds \cup {"was already used"}

\* C3 witness: the error is raised for a linear value that is assigned in a loop
\* body and not used before a break
C3_Witness ==
  /\ RejectedAtEnd /\ err.kind = "is not used on all control-flow paths"
  /\ \E j \in DOMAIN jmplog :
       /\ jmplog[j].k = "Break" /\ jmplog[j].bb = lastbb
       /\ \E v \in ctx : v.name = err.var /\ v.defined_at # 0

\* C4 as stated: a linear local used in a BB and live before one of its
\* successors makes check_bb raise 'was already used'
C4_UsedRejectedWithMessage ==
  (EndOfBB /\ \E i \in SuccIdx : UsedLive(i) # {}) =>
    (RejectedAtEnd /\ err.kind = "was already used")

\* C4 amended: such a local makes check_bb raise; with i the first successor
\* that has such a local, the error is 'was already used' for a local of that
\* kind or 'is not defined' for a name live before that successor, unless a
\* successor before i has an undefined live name or an unused linear local that
\* is not live, which is then the error raised; the output rows of a checked BB
\* hold no used linear variable, and no variable of an input row is used
C4_UsedRejected ==
  /\ (EndOfBB /\ \E i \in SuccIdx : UsedLive(i) # {}) =>
       LET i == SetMin({i \in SuccIdx : UsedLive(i) # {}})
       IN /\ RejectedAtEnd
          /\ IF \A j \in 1..(i - 1) : UndefinedLive(j) = {} /\ UnusedNotLive(j) = {}
             THEN \/ err.kind = "was already used" /\ err.var \in UsedLive(i)
                  \/ err.kind \in NotDefinedKinds /\ err.var \in UndefinedLive(i)
             ELSE err.kind \in NotDefinedKinds \cup {"is not used on all control-flow paths"}
  /\ phase \in {"check", "done"} =>
       \A b \in AllBBs : compiled[b].done =>
         /\ \A v \in compiled[b].input_row : v.used = 0
         /\ \A i \in 1..Len(compiled[b].output_rows) :
              \A v \in compiled[b].output_rows[i] : Linear(v.ty) => v.used = 0

\* C4 witness: the error is raised for a linear local consumed by the branch
\* predicate, and before that a BB was checked that consumed a linear variable
\* of its input row and handed another linear value on
C4_Witness ==
  /\ RejectedAtEnd /\ err.kind = "was already used"
  /\ \E v \in ctx : v.name = err.var /\ v.used = bbs[lastbb].pred_at
  /\ \E b \in AllBBs :
       /\ compiled[b].done
       /\ \E v \in compiled[b].input_row : Linear(v.ty) /\ v.name \in bbs[b].used
       /\ \E i \in 1..Len(compiled[b].output_rows) :
            \E v \in compiled[b].output_rows[i] : Linear(v.ty)

\* C7: in a CFG that CFGBuilder.build returns, every BB is reachable from the
\* entry BB and every BB but the exit BB has a successor; check_cfg then finds
\* a checked BB for every BB of the CFG
C7_AllBBsReachable ==
  /\ Built =>
       /\ ReachableFrom(EntryBB) = AllBBs
       /\ \A b \in AllBBs \ {ExitBB} : bbs[b].succs # <<>>
  /\ err.kind # "KeyError"
  /\ phase = "done" => \A b \in AllBBs : compiled[b].done

\* C7 witness: check_cfg has returned for a CFG with a loop whose body always
\* jumps and an if statement with a branch that jumps
C7_Witness ==
  /\ phase = "done"
  /\ \E i \in DOMAIN whiles : whiles[i].fall = NoBB
  /\ branches # <<>>
  /\ Len(bbs) >= 8

----------------------------------------------------------------------------
(* SpecRows: the whole pipeline on bodies that give a variable different   *)
(* types on different paths; g is also the name of a global                *)

MaxStmtsRows == 4

RowsStmts ==
  { If(Name("c")),
    Assign("g", Const("1")),
    Assign("x", Const("1")),
    Assign("x", Const("True")),
    AugAssign("x", Name("g")),
    Assign("y", IfExp(Name("c"), Const("1"), Const("True"))),
    Assign("c", Name("y")) }

RowsSigs ==
  { [inputs |-> <<[name |-> "c", ty |-> "bool"], [name |-> "x", ty |-> "bool"]>>,
     num_returns |-> 0, return_ty |-> "None"] }

InitRows == \E s \in RowsSigs : InitWith(s, {"g"})

NextRows ==
  \/ \E node \in RowsStmts :
        /\ nid < MaxStmtsRows
        /\ \/ visit_Assign(node)
           \/ visit_AugAssign(node)
           \/ visit_If(node)
  \/ visit_If_orelse
  \/ visit_If_merge
  \/ build_end
  \/ \E policy \in {"min", "max"} : analyze(policy)
  \/ check_cfg_entry
  \/ check_cfg_edge
  \/ check_cfg_end

SpecRows == InitRows /\ [][NextRows]_vars

\* check_cfg takes an edge into a BB that is checked already
Revisit == phase = "check" /\ bfs # <<>> /\ compiled[bfs[1][3]].done

\* the names to which the row of the edge taken and the input row of its target
\* give different types
Mismatched ==
  {x \in VarNames(edge_row(bfs[1][1], bfs[1][2])) \cap VarNames(compiled[bfs[1][3]].input_row) :
     Lookup(edge_row(bfs[1][1], bfs[1][2]), x).ty # Lookup(compiled[bfs[1][3]].input_row, x).ty}

\* the definition sites of x in the row of the edge taken and in the input row
\* of its target
SitesOf(x) ==
  { Lookup(edge_row(bfs[1][1], bfs[1][2]), x).defined_at,
    Lookup(compiled[bfs[1][3]].input_row, x).defined_at }

\* C11: when check_cfg takes an edge into a checked BB and the row of the edge
\* gives a variable another type than the input row of the BB, check_cfg raises
\* 'can refer to different types' for such a variable, the earlier definition
\* site is named first, and a temporary is called 'Expression'
C11_TypeMismatchRejected ==
  [][(Revisit /\ Mismatched # {}) =>
       /\ phase' = "error"
       /\ err'.kind = "can refer to different types"
       /\ \E x \in Mismatched :
            /\ err'.var = (IF x \in Range(TmpNames) \cup Range(RetNames)
                           THEN "Expression" ELSE x)
            /\ err'.first = SetMin(SitesOf(x))
            /\ err'.second = SetMax(SitesOf(x))]_vars

----------------------------------------------------------------------------
(* Unbound variables at the end of a BB *)

\* the BB recorded as the use site of x in live_before of the i-th successor
UseBB(i, x) == (CHOOSE p \in bbs[bbs[lastbb].succs[i]].live_before : p[1] = x)[2]

\* the message check_bb has for the unbound name x live before the i-th successor
NotDefinedKind(i, x) ==
  IF x \in bbs[UseBB(i, x)].maybe_assigned_before
  THEN "is not defined on all control-flow paths" ELSE "is not defined"

\* C12 as stated: a name live before a successor that is neither a local nor a
\* global makes check_bb raise 'is not defined on all control-flow paths' or
\* 'is not defined' for such a name, the former exactly when the name is in
\* maybe_assigned_before of its use site
C12_UnboundRejectedWithMessage ==
  (EndOfBB /\ \E i \in SuccIdx : UndefinedLive(i) # {}) =>
    /\ RejectedAtEnd
    /\ \E i \in SuccIdx : \E x \in UndefinedLive(i) :
         err.var = x /\ err.kind = NotDefinedKind(i, x)

\* C12 amended: such a name makes check_bb raise; with i the first successor
\* that has such a name, the error is the one stated for a name unbound before
\* that successor, or 'was already used' for a used linear local live before
\* it, unless a successor before i has a used linear local that is live or an
\* unused one that is not, which is then the error raised; a BB that was
\* checked has every name live before a successor in its output row or among
\* the globals
C12_UnboundRejected ==
  /\ (EndOfBB /\ \E i \in SuccIdx : UndefinedLive(i) # {}) =>
       LET i == SetMin({i \in SuccIdx : UndefinedLive(i) # {}})
       IN /\ RejectedAtEnd
          /\ IF \A j \in 1..(i - 1) : UsedLive(j) = {} /\ UnusedNotLive(j) = {}
             THEN \/ \E x \in UndefinedLive(i) :
                       err.var = x /\ err.kind = NotDefinedKind(i, x)
                  \/ err.kind = "was already used" /\ err.var \in UsedLive(i)
             ELSE err.kind \in {"was already used", "is not used on all control-flow paths"}
  /\ phase \in {"check", "done"} =>
       \A b \in AllBBs : compiled[b].done =>
         \A i \in 1..Len(bbs[b].succs) :
           LiveBefore(bbs[b].succs[i]) \subseteq
             VarNames(compiled[b].output_rows[i]) \cup globals

\* C12 witness: check_bb has raised 'is not defined on all control-flow paths'
\* for a name that is assigned on one path to its use site only
C12_Witness ==
  /\ RejectedAtEnd /\ err.kind = "is not defined on all control-flow paths"
  /\ \E i \in SuccIdx : err.var \in UndefinedLive(i) /\ NotDefinedKind(i, err.var) = err.kind
  /\ \E b \in AllBBs : err.var \in bbs[b].assigned

\* C12 second witness: check_bb has raised 'is not defined' for a name that no
\* BB assigns
C12_WitnessNever ==
  /\ RejectedAtEnd /\ err.kind = "is not defined"
  /\ \A b \in AllBBs : err.var \notin bbs[b].assigned

----------------------------------------------------------------------------
(* The end of CFGBuilder.build *)

\* a step in which CFGBuilder.build returns the CFG or raises for a missing
\* return statement
BuildEnds ==
  /\ phase = "build"
  /\ \/ phase' = "built"
     \/ phase' = "error" /\ err'.kind = "Expected return statement"

\* the edges of the CFG b, as the successor and predecessor lists of its BBs
Edges(b) == [i \in 1..Len(b) |-> [succs |-> b[i].succs, preds |-> b[i].preds]]

----------------------------------------------------------------------------
(* The order in which check_cfg checks the BBs *)

CheckedBBs == {b \in DOMAIN compiled : compiled[b].done}

\* the checked predecessor of b that was checked first
Parent(b) ==
  CHOOSE p \in CheckedBBs :
    /\ b \in Range(bbs[p].succs)
    /\ \A p2 \in CheckedBBs : b \in Range(bbs[p2].succs) => compiled[p].seq <= compiled[p2].seq

\* the first position of b among the successors of p
PosIn(p, b) == SetMin({i \in 1..Len(bbs[p].succs) : bbs[p].succs[i] = b})

\* BBs are found in breadth-first order: a BB found from a parent checked
\* earlier comes first, BBs found from the same parent come in the order of the
\* successor positions
FoundBefore(b1, b2) ==
  \/ compiled[Parent(b1)].seq < compiled[Parent(b2)].seq
  \/ /\ Parent(b1) = Parent(b2)
     /\ PosIn(Parent(b1), b1) < PosIn(Parent(b2), b2)

\* the entries of compiled are in breadth-first order from the entry BB
BreadthFirst ==
  phase \in {"check", "done"} \/ (phase = "error" /\ lastbb # NoBB /\ CheckedBBs # {}) =>
    /\ compiled[EntryBB].seq = 1
    /\ {compiled[b].seq : b \in CheckedBBs} = 1..Cardinality(CheckedBBs)
    /\ \A b \in CheckedBBs \ {EntryBB} :
         /\ \E p \in CheckedBBs : b \in Range(bbs[p].succs)
         /\ compiled[Parent(b)].seq < compiled[b].seq
    /\ \A b1, b2 \in CheckedBBs \ {EntryBB} :
         compiled[b1].seq < compiled[b2].seq <=> (b1 # b2 /\ FoundBefore(b1, b2))
    /\ phase = "done" => CheckedBBs = ReachableFrom(EntryBB)

\* C14: check_cfg checks every BB reachable from the entry BB once, in
\* breadth-first order of the edges; the edges of a BB are put at the end of
\* the queue in the order of the successor positions when the BB is checked; an
\* edge into a checked BB checks no BB again
C14_BreadthFirstOnce ==
  [][/\ BreadthFirst'
     /\ phase = "check" =>
          /\ \A b \in CheckedBBs : compiled'[b] = compiled[b]
          /\ Revisit => compiled' = compiled /\ lastbb' = lastbb /\ ctx' = ctx
          /\ \A b \in AllBBs \ CheckedBBs : compiled'[b].done =>
               /\ bfs # <<>> /\ b = bfs[1][3] /\ lastbb' = b
               /\ CheckedBBs' = CheckedBBs \cup {b}
               /\ bfs' = Tail(bfs) \o [i \in 1..Len(bbs[b].succs) |-> <<b, i, bbs[b].succs[i]>>]
    ]_vars

\* C14 witness: check_cfg has returned for a CFG with a loop and a branch, in
\* which a BB with two predecessors was reached a second time and BBs were
\* checked in another order than the one of their creation
C14_Witness ==
  /\ phase = "done"
  /\ whiles # <<>> /\ branches # <<>>
  /\ \E b \in AllBBs \ {ExitBB} : Len(bbs[b].preds) >= 2
  /\ \E b1, b2 \in AllBBs \ {ExitBB} : b1 < b2 /\ compiled[b1].seq > compiled[b2].seq

----------------------------------------------------------------------------
(* Determinism of the analyses *)

\* CFG.analyze run on the CFG c with the worklists taken by policy
analyze_with(c, policy) ==
  run_maybe_assignment(
    [bbs |-> maybe_assignment_start(
               run_definite_assignment(
                 [bbs |-> definite_assignment_start(
                            run_liveness([bbs |-> liveness_start(c), queue |-> 1..Len(c)],
                                         policy)),
                  queue |-> 1..Len(c)], policy)),
     queue |-> 1..Len(c)], policy)

\* the results of the analyses in the CFG c
AnalysisResult(c) ==
  [b \in 1..Len(c) |-> [live_before |-> c[b].live_before,
                        assigned_before |-> c[b].assigned_before,
                        maybe_assigned_before |-> c[b].maybe_assigned_before]]

\* C15: the result of CFG.analyze, use sites included, does not depend on the
\* order in which the BBs are taken from the worklists: it is the result of the
\* run that always takes the BB created first
C15_AnalysisDeterministic ==
  phase = "analyzed" => AnalysisResult(bbs) = AnalysisResult(analyze_with(bbs, "min"))

\* the names live before each BB and the two assignment sets do not depend on
\* the order
AnalysisSetsDeterministic ==
  phase = "analyzed" =>
    \A b \in AllBBs :
      /\ Keys(bbs[b].live_before) = Keys(analyze_with(bbs, "min")[b].live_before)
      /\ bbs[b].assigned_before = analyze_with(bbs, "min")[b].assigned_before
      /\ bbs[b].maybe_assigned_before = analyze_with(bbs, "min")[b].maybe_assigned_before

----------------------------------------------------------------------------
(* assigned_before of the entry BB *)

\* the program analyses have run
Analyzed == phase \in {"analyzed", "check", "done"} \/ (phase = "error" /\ lastbb # NoBB)

----------------------------------------------------------------------------
(* The CFGs of two small functions *)

\* the statements of the BBs of the CFG, in the order of the BBs
AllStmts == [b \in AllBBs |-> bbs[b].stmts]

\* the function body is the one statement s
BodyIs(s) ==
  /\ phase = "built" /\ nid = 1 /\ cnt = 1 /\ sig.num_returns = 1
  /\ \E b \in AllBBs : bbs[b].stmts # <<>> /\ bbs[b].stmts[Len(bbs[b].stmts)].k = "Return"
  /\ IF s.value.k = "IfExp" THEN tmp = 1 /\ branches = <<>>
     ELSE Len(branches) = 1 /\ branches[1].test = s.value

\* `return b1 and b2`, the parameters are called a and b here
ReturnAnd == Return(BoolOp("And", <<Name("a"), Name("b")>>))

\* a BB whose statements are the assignment of the constant v to %tmp0
AssignsTmp(b, v) ==
  /\ Len(bbs[b].stmts) = 1
  /\ bbs[b].stmts[1].k = "Assign"
  /\ bbs[b].stmts[1].target = TmpNames[1]
  /\ bbs[b].stmts[1].value = Const(v)

\* in the CFG of `return a and b` the entry BB branches on a, its false target
\* assigns False to the temporary and its true target branches on b
ShortCircuitReturn ==
  /\ bbs[EntryBB].branch_pred = Name("a")
  /\ Len(bbs[EntryBB].succs) = 2
  /\ LET eval_b == bbs[EntryBB].succs[1]
         false_bb == bbs[EntryBB].succs[2]
     IN /\ AssignsTmp(false_bb, "False")
        /\ bbs[eval_b].branch_pred = Name("b")
        /\ bbs[eval_b].stmts = <<>>
        /\ Len(bbs[eval_b].succs) = 2
        /\ AssignsTmp(bbs[eval_b].succs[1], "True")
        /\ bbs[eval_b].succs[2] = false_bb

\* C17 as stated: the CFG of `return b1 and b2` has 4 BBs; the entry BB
\* branches on b1, on false to a block that assigns False to the temporary, on
\* true to the evaluation of b2
C17_FourBBs ==
  BodyIs(ReturnAnd) => Len(bbs) = 4 /\ ShortCircuitReturn

\* C17 amended: the CFG of `return b1 and b2` has 6 BBs: the entry BB, which
\* branches on b1, the BB that branches on b2, the two BBs that assign True and
\* False to the temporary, the BB that merges them and returns the temporary,
\* and the exit BB
C17_SixBBs ==
  BodyIs(ReturnAnd) =>
    /\ Len(bbs) = 6
    /\ ShortCircuitReturn
    /\ \E merge_bb \in AllBBs :
         /\ bbs[merge_bb].stmts = <<[k |-> "Return", nid |-> 1, value |-> Name(TmpNames[1])]>>
         /\ bbs[merge_bb].succs = <<ExitBB>>
         /\ Len(bbs[merge_bb].preds) = 2
         /\ \A p \in Range(bbs[merge_bb].preds) : bbs[p].succs = <<merge_bb>>
         /\ {p \in AllBBs : AssignsTmp(p, "True") \/ AssignsTmp(p, "False")}
              = Range(bbs[merge_bb].preds)
    /\ bbs[ExitBB].succs = <<>>

\* C17 witness: build has returned the CFG of `return a and b`
C17_Witness == BodyIs(ReturnAnd) /\ ShortCircuitReturn /\ ReachableFrom(EntryBB) = AllBBs

\* `return 1 if b else 2`, the parameter is called a here
ReturnIfExp == Return(IfExp(Name("a"), Const("1"), Const("2")))

\* the BBs that end with an assignment to the temporary t
ArmsOf(t) ==
  {b \in AllBBs : /\ bbs[b].stmts # <<>>
                  /\ bbs[b].stmts[Len(bbs[b].stmts)].k = "Assign"
                  /\ bbs[b].stmts[Len(bbs[b].stmts)].target = t}

\* C18: a conditional expression in value position gets two new BBs that end
\* with an assignment to the same temporary, which no other expression has,
\* and one new BB that merges them and goes on with the temporary in the place
\* of the expression; the CFG of `return 1 if b else 2` has the 5 BBs entry,
\* then, else, merge, exit
C18_IfExpStructure ==
  /\ Built =>
       \A i \in 1..tmp :
         /\ Cardinality(ArmsOf(TmpNames[i])) = 2
         /\ \E merge_bb \in AllBBs :
              /\ Len(bbs[merge_bb].preds) = 2
              /\ Range(bbs[merge_bb].preds) = ArmsOf(TmpNames[i])
              /\ TmpNames[i] \in bbs[merge_bb].used
              /\ \A b \in ArmsOf(TmpNames[i]) :
                   /\ bbs[b].succs = <<merge_bb>>
                   /\ bbs[b].preds # <<>>
                   /\ b > ExitBB /\ b < merge_bb
                   /\ TmpNames[i] \in bbs[b].assigned
         /\ \A b \in AllBBs \ ArmsOf(TmpNames[i]) : TmpNames[i] \notin bbs[b].assigned
  /\ BodyIs(ReturnIfExp) =>
       /\ Len(bbs) = 5
       /\ bbs[EntryBB].branch_pred = Name("a") /\ bbs[EntryBB].stmts = <<>>
       /\ Len(bbs[EntryBB].succs) = 2
       /\ LET then_bb == bbs[EntryBB].succs[1]
              else_bb == bbs[EntryBB].succs[2]
              merge_bb == bbs[bbs[EntryBB].succs[1]].succs[1]
          IN /\ then_bb # else_bb
             /\ AssignsTmp(then_bb, "1") /\ AssignsTmp(else_bb, "2")
             /\ bbs[then_bb].succs = <<merge_bb>> /\ bbs[else_bb].succs = <<merge_bb>>
             /\ bbs[merge_bb].stmts = <<[k |-> "Return", nid |-> 1, value |-> Name(TmpNames[1])]>>
             /\ bbs[merge_bb].succs = <<ExitBB>>
             /\ {EntryBB, then_bb, else_bb, merge_bb, ExitBB} = AllBBs

\* C18 witness: build has returned the CFG of `return 1 if a else 2`
C18_Witness ==
  /\ BodyIs(ReturnIfExp)
  /\ Len(bbs) = 5 /\ tmp = 1
  /\ Cardinality(ArmsOf(TmpNames[1])) = 2

----------------------------------------------------------------------------
(* SpecCoerce: CoercingChecker.synthesize on bounded argument lists        *)

MaxArgs == 3

\* the variables of the CFG pipeline, which the call checker never touches
cfgvars == <<sig, globals, bbs, cur, stack, jumps, tmp, nid, cnt,
            whiles, branches, jmplog, cvars>>

NoPipeline ==
  /\ globals = {}
  /\ bbs = <<>> /\ cur = NoBB /\ stack = <<>> /\ jumps = <<>>
  /\ tmp = 0 /\ nid = 0 /\ cnt = 0
  /\ err = NoErr
  /\ whiles = <<>> /\ branches = <<>> /\ jmplog = <<>>
  /\ queue = {} /\ compiled = <<>> /\ bfs = <<>> /\ ctx = <<>> /\ lastbb = NoBB

\* Context.locals of the call: one variable of each type, three of them of
\* NumericType (kinds Nat, Int and Float)
CoerceLocals ==
  [n |-> "nat", i |-> "int", f |-> "float", b |-> "bool", a |-> "angle"]

NumericKinds == {"nat", "int", "float"}

\* ExprSynthesizer.synthesize, the type: a variable has its declared type, a
\* call of __float__ is a float
SynthType(e) ==
  IF e.k = "Call" /\ e.func = "__float__" THEN "float" ELSE CoerceLocals[e.id]

\* the loop body of synthesize with the test widened to every numeric kind
coerce_arg_every_kind(e) ==
  IF SynthType(e) \in NumericKinds THEN Call("__float__", <<e>>) ELSE e

\* CoercingChecker.synthesize, the loop body: an argument of a numeric type
\* whose kind is not Float is replaced by a call of its __float__
coerce_arg(e) ==
  IF SynthType(e) \in NumericKinds /\ SynthType(e) # "float"
  THEN Call("__float__", <<e>>) ELSE e

\* CoercingChecker.synthesize, the loop over args
coerce_args(as) == [i \in 1..Len(as) |-> coerce_arg(as[i])]

ArgLists ==
  UNION {[1..n -> {Name(x) : x \in DOMAIN CoerceLocals}] : n \in 0..MaxArgs}

InitCoerce ==
  /\ NoPipeline
  /\ phase = "args"
  /\ args \in ArgLists
  /\ sig = <<>>
  /\ hugr = <<>> /\ variables = <<>> /\ bbnode = NoBB /\ calls = <<>>
  /\ NoOthers

\* one call of CoercingChecker.synthesize; the second call is the checker
\* applied again to the arguments it has rewritten
CoercingChecker_synthesize ==
  /\ phase \in {"args", "coerced"}
  /\ args' = coerce_args(args)
  /\ phase' = IF phase = "args" THEN "coerced" ELSE "recoerced"
  /\ UNCHANGED <<ovars, cfgvars, err, hugr, variables, bbnode, calls>>

NextCoerce == CoercingChecker_synthesize

SpecCoerce == InitCoerce /\ [][NextCoerce]_vars

RECURSIVE NumFloatCalls(_)
\* the number of __float__ calls wrapped around an argument
NumFloatCalls(e) ==
  IF e.k = "Call" /\ e.func = "__float__" THEN 1 + NumFloatCalls(e.args[1]) ELSE 0

RECURSIVE Coerced(_)
\* the argument as written by the caller
Coerced(e) == IF e.k = "Call" /\ e.func = "__float__" THEN Coerced(e.args[1]) ELSE e

\* C19: float coercion is idempotent and one-way: a call of synthesize on the
\* arguments as written wraps each argument of numeric kind Nat or Int in
\* exactly one __float__ call and leaves arguments of kind Float and of
\* non-numeric types alone, and a second call on the rewritten arguments
\* inserts nothing
C19_CoercionOnce ==
  [][ /\ Len(args') = Len(args)
      /\ \A i \in 1..Len(args) :
           /\ Coerced(args'[i]) = Coerced(args[i])
           /\ NumFloatCalls(args'[i]) =
                IF CoerceLocals[Coerced(args[i]).id] \in {"nat", "int"} THEN 1 ELSE 0
      /\ (phase = "coerced" => args' = args) ]_vars

C19_Witness ==
  /\ phase = "recoerced"
  /\ \E i, j, k \in 1..Len(args) :
       /\ args[i] = Call("__float__", <<Name("i")>>)
       /\ args[j] = Name("f")
       /\ args[k] = Name("a")

----------------------------------------------------------------------------
(* The statement compiler of src/guppy/compiler.py: StatementCompiler and  *)
(* FunctionCompiler.compile, on bodies of assignments, returns and ifs     *)
(* whose tests are variables.  A VarMap is a function from the names it    *)
(* holds to the flag "errors_on_usage is not empty"; of a block the model  *)
(* keeps the names on the out-ports of its Input node, the in-ports of its *)
(* Output node and its control-flow successors.                            *)

MaxBlocks == 5

\* the variable names, in lexicographic order
PortNames == <<"a", "b", "c">>

\* the block that FunctionCompiler.compile adds itself
InputBB == 1

\* the in-port of the branch predicate and of a returned value
PredPort == "%pred"
ValPort == "%val"

Block == [input |-> <<>>, output |-> <<>>, finished |-> FALSE, succs |-> <<>>]

\* sorted(variables.values(), key=lambda v: v.name), the names
sorted_names(vm) == SelectSeq(PortNames, LAMBDA x : x \in DOMAIN vm)

\* the orders in which a set of names can be iterated
Orders(S) ==
  {s \in [1..Cardinality(S) -> S] : \A i, j \in 1..Cardinality(S) : s[i] = s[j] => i = j}

\* CompilerBase._add_input: the out-ports of the new Input node
add_input(vm) == sorted_names(vm)

\* CompilerBase._add_output: the in-ports of the new Output node
add_output(vm, extra_outputs) == extra_outputs \o sorted_names(vm)

\* CompilerBase._make_bb: the graph with the new block, which is Len(h) + 1
make_bb(h, predecessor, vm) ==
  Append([h EXCEPT ![predecessor].succs = Append(@, Len(h) + 1)],
         [Block EXCEPT !.input = add_input(vm)])

\* CompilerBase._finish_bb, the assertion "variables or outputs", for a call
\* that passes variables and for a call that passes outputs
finish_bb_asserts_variables(vm) == DOMAIN vm # {}
finish_bb_asserts_outputs(outs) == outs # <<>>

\* CompilerBase._finish_bb after its assertion, for a call that passes
\* variables: the branch predicate, then the variables by _add_output
finish_bb_variables(h, bb, vm) ==
  [h EXCEPT ![bb].finished = TRUE, ![bb].output = add_output(vm, <<PredPort>>)]

\* CompilerBase._finish_bb after its assertion, for a call that passes
\* outputs: the branch predicate, then the ports as given
finish_bb_outputs(h, bb, outs) ==
  [h EXCEPT ![bb].finished = TRUE, ![bb].output = <<PredPort>> \o outs]

\* the loop "for var in vs.values(): variables[var.name] = var"
update_variables(vm, vs) ==
  [x \in DOMAIN vm \cup DOMAIN vs |-> IF x \in DOMAIN vs THEN vs[x] ELSE vm[x]]

\* visit_If, the loop over set(if_vars.keys()) | set(else_vars.keys()) as
\* far as it changes variables: a name of both branches gets the merged
\* variable, a name of one branch a variable that raises when used
merged_variables(vm, if_vars, else_vars) ==
  [x \in DOMAIN vm \cup DOMAIN if_vars \cup DOMAIN else_vars |->
     IF x \in DOMAIN if_vars /\ x \in DOMAIN else_vars
     THEN if_vars[x] \/ else_vars[x]
     ELSE IF x \in DOMAIN if_vars \cup DOMAIN else_vars THEN TRUE ELSE vm[x]]

\* visit_If, the same loop as far as it adds ports: the names of both
\* branches in the order in which the set is iterated, which is any order
merge_ports(if_vars, else_vars) == Orders(DOMAIN if_vars \cap DOMAIN else_vars)

\* the return port of the exit block, as a control-flow successor
ReturnPort == 0

\* compile_list has compiled a statement of the list of the innermost call
a_statement(cs) ==
  IF cs = <<>> THEN cs ELSE [cs EXCEPT ![Len(cs)].nonempty = TRUE]

\* StatementCompiler.visit_Assign for "x = <constant>"
SC_visit_Assign(x) ==
  /\ phase = "compile" /\ bbnode # NoBB
  /\ variables' = update_variables(variables, [n \in {x} |-> FALSE])
  /\ calls' = a_statement(calls)
  /\ UNCHANGED <<ovars, cfgvars, args, phase, err, hugr, bbnode>>

\* StatementCompiler.visit_Return with the return_hook of
\* FunctionCompiler.compile, for "return ()" and "return <constant>"
SC_visit_Return(row) ==
  /\ phase = "compile" /\ bbnode # NoBB
  /\ IF Len(row) # sig.num_returns
     THEN Raise("Return type mismatch") /\ UNCHANGED <<hugr, bbnode, calls>>
     ELSE IF ~finish_bb_asserts_outputs(row)
     THEN Raise("AssertionError") /\ UNCHANGED <<hugr, bbnode, calls>>
     ELSE /\ hugr' = [finish_bb_outputs(hugr, bbnode, row)
                        EXCEPT ![bbnode].succs = Append(@, ReturnPort)]
          /\ bbnode' = NoBB
          /\ calls' = a_statement(calls)
          /\ UNCHANGED <<phase, err>>
  /\ UNCHANGED <<ovars, cfgvars, args, variables>>

\* StatementCompiler.compile_list: a statement after all paths have jumped
SC_unreachable_code ==
  /\ phase = "compile" /\ bbnode = NoBB
  /\ Raise("Unreachable code")
  /\ UNCHANGED <<ovars, cfgvars, pvars>>

\* StatementCompiler.visit_If up to the statements of the if branch
SC_visit_If(test, else_exists) ==
  /\ phase = "compile" /\ bbnode # NoBB
  /\ test \in DOMAIN variables
  /\ IF variables[test]
     THEN Raise("only defined in one branch") /\ UNCHANGED <<hugr, bbnode, calls>>
     ELSE /\ finish_bb_asserts_variables(variables)
          /\ hugr' = make_bb(finish_bb_variables(hugr, bbnode, variables), bbnode, variables)
          /\ bbnode' = Len(hugr) + 1
          /\ calls' = Append(a_statement(calls),
                             [bb |-> bbnode, variables |-> variables,
                              else_exists |-> else_exists, stage |-> "if",
                              if_bb |-> NoBB, if_vars |-> <<>>, nonempty |-> FALSE])
          /\ UNCHANGED <<phase, err>>
  /\ UNCHANGED <<ovars, cfgvars, args, variables>>

\* StatementCompiler.visit_If from the end of the if branch up to the
\* statements of the else branch
SC_visit_If_orelse ==
  /\ phase = "compile" /\ calls # <<>>
  /\ LET c == calls[Len(calls)] IN
       /\ c.stage = "if" /\ c.nonempty /\ c.else_exists
       /\ hugr' = make_bb(hugr, c.bb, c.variables)
       /\ bbnode' = Len(hugr) + 1
       /\ variables' = c.variables
       /\ calls' = [calls EXCEPT ![Len(calls)] =
                      [c EXCEPT !.stage = "else", !.if_bb = bbnode,
                                !.if_vars = variables, !.nonempty = FALSE]]
  /\ UNCHANGED <<ovars, cfgvars, args, phase, err>>

\* StatementCompiler.visit_If from the end of its last branch
SC_visit_If_end ==
  /\ phase = "compile" /\ calls # <<>>
  /\ LET c == calls[Len(calls)]
         if_bb == IF c.stage = "else" THEN c.if_bb ELSE bbnode
         if_vars == IF c.stage = "else" THEN c.if_vars ELSE variables
         else_bb == IF c.else_exists THEN bbnode ELSE c.bb
         else_vars == IF c.else_exists THEN variables ELSE c.variables
         rest == a_statement(SubSeq(calls, 1, Len(calls) - 1))
     IN
       /\ c.nonempty
       /\ c.stage = "else" \/ ~c.else_exists
       /\ calls' = rest
       /\ CASE if_bb = NoBB /\ else_bb = NoBB ->
                 /\ bbnode' = NoBB
                 /\ variables' = c.variables
                 /\ UNCHANGED <<hugr, phase, err>>
            [] if_bb = NoBB /\ else_bb # NoBB ->
                 /\ hugr' = IF c.else_exists THEN hugr ELSE make_bb(hugr, c.bb, c.variables)
                 /\ bbnode' = IF c.else_exists THEN else_bb ELSE Len(hugr) + 1
                 /\ variables' = update_variables(c.variables, else_vars)
                 /\ UNCHANGED <<phase, err>>
            [] if_bb # NoBB /\ else_bb = NoBB ->
                 /\ bbnode' = if_bb
                 /\ variables' = update_variables(c.variables, if_vars)
                 /\ UNCHANGED <<hugr, phase, err>>
            [] OTHER ->
                 \E ports \in merge_ports(if_vars, else_vars) :
                   IF ~finish_bb_asserts_outputs(ports)
                   THEN Raise("AssertionError") /\ UNCHANGED <<hugr, bbnode, variables>>
                   ELSE /\ hugr' =
                             LET h1 == Append(hugr, [Block EXCEPT !.input = ports])
                                 h2 == [h1 EXCEPT ![if_bb].succs = Append(@, Len(h1))]
                                 h3 == [h2 EXCEPT ![else_bb].succs = Append(@, Len(h1))]
                                 h4 == finish_bb_outputs(h3, if_bb, ports)
                             IN IF c.else_exists THEN finish_bb_outputs(h4, else_bb, ports)
                                ELSE h4
                        /\ bbnode' = Len(hugr) + 1
                        /\ variables' = merged_variables(c.variables, if_vars, else_vars)
                        /\ UNCHANGED <<phase, err>>
  /\ UNCHANGED <<ovars, cfgvars, args>>

\* FunctionCompiler.compile after the body: the implicit void return
FC_compile_end ==
  /\ phase = "compile" /\ calls = <<>>
  /\ IF bbnode = NoBB THEN phase' = "done" /\ UNCHANGED <<err, hugr>>
     ELSE IF sig.num_returns > 0
     THEN Raise("Expected return statement") /\ UNCHANGED hugr
     ELSE IF ~finish_bb_asserts_outputs(<<>>)
     THEN Raise("AssertionError") /\ UNCHANGED hugr
     ELSE /\ hugr' = [finish_bb_outputs(hugr, bbnode, <<>>)
                        EXCEPT ![bbnode].succs = Append(@, ReturnPort)]
          /\ phase' = "done" /\ UNCHANGED err
  /\ UNCHANGED <<ovars, cfgvars, args, variables, bbnode, calls>>

----------------------------------------------------------------------------
(* SpecPorts: the statement compiler on bounded bodies                     *)

PortParams == {<<"a">>, <<"b", "a">>, <<"c", "a", "b">>}

PortSigs ==
  { [inputs |-> [i \in 1..Len(ps) |-> [name |-> ps[i], ty |-> "bool"]],
     num_returns |-> k, return_ty |-> IF k = 0 THEN "None" ELSE "bool"] :
      ps \in PortParams, k \in {0, 1} }

\* FunctionCompiler.compile up to the body: the input block, whose Input
\* node has the arguments in the order of the signature
InitPorts ==
  /\ NoPipeline
  /\ sig \in PortSigs
  /\ phase = "compile"
  /\ args = <<>>
  /\ hugr = <<[Block EXCEPT !.input = [i \in 1..Len(sig.inputs) |-> sig.inputs[i].name]]>>
  /\ variables = [x \in {sig.inputs[i].name : i \in 1..Len(sig.inputs)} |-> FALSE]
  /\ bbnode = InputBB
  /\ calls = <<>>
  /\ NoOthers

NextPorts ==
  \/ \E x \in Range(PortNames) : SC_visit_Assign(x)
  \/ \E row \in {<<>>, <<ValPort>>} : SC_visit_Return(row)
  \/ SC_unreachable_code
  \/ \E test \in Range(PortNames), else_exists \in BOOLEAN :
        Len(hugr) + 3 <= MaxBlocks /\ SC_visit_If(test, else_exists)
  \/ SC_visit_If_orelse
  \/ SC_visit_If_end
  \/ FC_compile_end

SpecPorts == InitPorts /\ [][NextPorts]_vars

\* the names on variable ports, in port order
VarPorts(ports) == SelectSeq(ports, LAMBDA p : p \in Range(PortNames))

Rank(x) == CHOOSE i \in 1..Len(PortNames) : PortNames[i] = x

Lexicographic(ports) ==
  \A i, j \in 1..Len(ports) : i < j => Rank(ports[i]) < Rank(ports[j])

\* C20: every basic block emitted by the statement compiler has the
\* out-ports of its Input node and the variable in-ports of its Output node
\* in lexicographic order of variable name, the branch predicate being the
\* first in-port of the Output node; the merge block of an if/else and the
\* outputs of its two predecessors included
C20_PortsLexicographic ==
  \A b \in 1..Len(hugr) :
    /\ b # InputBB => Lexicographic(hugr[b].input)
    /\ hugr[b].finished =>
         /\ hugr[b].output[1] = PredPort
         /\ Lexicographic(VarPorts(Tail(hugr[b].output)))

\* a block is a merge block when two blocks jump to it
Predecessors(b) == {p \in 1..Len(hugr) : \E i \in 1..Len(hugr[p].succs) : hugr[p].succs[i] = b}
IsMergeBlock(b) == Cardinality(Predecessors(b)) >= 2

\* what the compiler does keep: the blocks added by _make_bb have their Input
\* ports in lexicographic order, and so have the Output nodes of the blocks
\* that do not jump to a merge block only
PortsLexicographicButMerge ==
  \A b \in 1..Len(hugr) :
    /\ b # InputBB /\ ~IsMergeBlock(b) => Lexicographic(hugr[b].input)
    /\ hugr[b].finished =>
         /\ hugr[b].output[1] = PredPort
         /\ (\A m \in 1..Len(hugr) : IsMergeBlock(m) => hugr[b].succs # <<m>>)
              => Lexicographic(VarPorts(Tail(hugr[b].output)))

\* a merge block reached in an order that is not the lexicographic one
C20_MergeOutOfOrder ==
  \E m \in 1..Len(hugr) :
    /\ IsMergeBlock(m) /\ ~Lexicographic(hugr[m].input)
    /\ \E p \in Predecessors(m) :
         /\ Len(hugr[p].succs) = 2 /\ hugr[p].finished
         /\ VarPorts(Tail(hugr[p].output)) # hugr[m].input

\* The end of the body in the statement compiler: when the body ends in a
\* fall-through block, a function without return values gets that block
\* finished and linked to the return port, and a function with return
\* values is rejected with 'Expected return statement'; when no
\* fall-through block remains no edge is added.  The first case fails:
\* _finish_bb(final_bb, outputs=[]) trips its assertion.
FC_ImplicitVoidReturn ==
  [][ FC_compile_end =>
        \/ /\ bbnode = NoBB
           /\ phase' = "done" /\ hugr' = hugr
        \/ /\ bbnode # NoBB /\ sig.num_returns > 0
           /\ phase' = "error" /\ err'.kind = "Expected return statement"
           /\ hugr' = hugr
        \/ /\ bbnode # NoBB /\ sig.num_returns = 0
           /\ phase' = "done"
           /\ hugr'[bbnode].finished
           /\ hugr'[bbnode].succs = Append(hugr[bbnode].succs, ReturnPort) ]_vars

\* the same without the case of the implicit void return
CompiledEndButVoid ==
  [][ FC_compile_end /\ ~(bbnode # NoBB /\ sig.num_returns = 0) =>
        \/ /\ bbnode = NoBB
           /\ phase' = "done" /\ hugr' = hugr
        \/ /\ bbnode # NoBB /\ sig.num_returns > 0
           /\ phase' = "error" /\ err'.kind = "Expected return statement"
           /\ hugr' = hugr ]_vars

----------------------------------------------------------------------------
(* Successors and branch predicates *)

\* the BBs in which building continues: the current one and the ends of the
\* if branches whose else branch is being built
ContinuedBBs ==
  {cur} \cup {stack[i].if_res : i \in {j \in 1..Len(stack) : stack[j].k = "If"}}

\* C27: while a CFG is built the BB in which building continues has no
\* successor; every BB has at most two successors, and has two exactly when
\* its branch_pred is set; so check_bb never fails its assertion that a BB
\* with more than one successor has a branch predicate
C27_BranchPredIffTwoSuccessors ==
  /\ phase = "build" =>
       \A b \in ContinuedBBs \ {NoBB} : bbs[b].succs = <<>>
  /\ \A b \in AllBBs :
       /\ Len(bbs[b].succs) <= 2
       /\ Len(bbs[b].succs) = 2 <=> bbs[b].branch_pred # NoExpr
  /\ ~(phase = "error" /\ err.kind = "AssertionError" /\ err.stage = "pred")

C27_Witness ==
  /\ phase = "done"
  /\ \E b, c \in AllBBs :
       /\ compiled[b].done /\ Len(bbs[b].succs) = 2 /\ bbs[b].branch_pred # NoExpr
       /\ compiled[c].done /\ Len(bbs[c].succs) = 1 /\ bbs[c].branch_pred = NoExpr

----------------------------------------------------------------------------
(* Termination of the worklist loops.  The loops of CFG.analyze run to     *)
(* their end once started: SpecAnalysisFair adds that the analysis always  *)
(* takes its next turn.                                                    *)

AnalysisTurn ==
  \/ liveness_init
  \/ \E bb \in AllBBs : liveness_step(bb)
  \/ definite_assignment_init
  \/ \E bb \in AllBBs : definite_assignment_step(bb)
  \/ maybe_assignment_init
  \/ \E bb \in AllBBs : maybe_assignment_step(bb)
  \/ analyze_end

SpecAnalysisFair == SpecAnalysis /\ WF_vars(AnalysisTurn)

\* the propagation conditions of the three analyses over every edge
LivenessStable ==
  \A p \in AllBBs : \A s \in Succs(p) :
    bbs[p].used \cup (LiveBefore(s) \ bbs[p].assigned) \subseteq LiveBefore(p)

DefiniteAssignmentStable ==
  \A p \in AllBBs : \A s \in Succs(p) :
    bbs[s].assigned_before \subseteq bbs[p].assigned_before \cup bbs[p].assigned

MaybeAssignmentStable ==
  \A p \in AllBBs : \A s \in Succs(p) :
    (bbs[p].maybe_assigned_before \cup bbs[p].assigned) \ bbs[s].assigned_before
      \subseteq bbs[s].maybe_assigned_before

\* a turn of a worklist loop with sets that only grow (sets of b before and
\* after the turn are old[b] and new[b]): a BB that comes onto the worklist
\* has a set that grew, and when the worklist lost no BB the popped BB came
\* back, so the set of a BB grew
GrowingTurn(old, new) ==
  /\ \A b \in AllBBs : old[b] \subseteq new[b]
  /\ \A b \in queue' \ queue : old[b] # new[b]
  /\ queue \subseteq queue' => \E b \in queue : old[b] # new[b]

\* C28: each of the three worklist loops of CFG.analyze terminates on every
\* CFG, loops included, in whatever order the BBs are taken from the
\* worklist: a BB is put back only when its set strictly grew (liveness,
\* maybe-assignment) or strictly shrank (definite assignment), and when a
\* loop has ended no edge violates its propagation condition
C28_WorklistsTerminate ==
  /\ [][ /\ phase = "liveness" /\ phase' = "liveness" =>
              GrowingTurn([b \in AllBBs |-> LiveBefore(b)],
                          [b \in AllBBs |-> Keys(bbs'[b].live_before)])
         /\ phase = "defass" /\ phase' = "defass" =>
              GrowingTurn([b \in AllBBs |-> all_vars(bbs) \ bbs[b].assigned_before],
                          [b \in AllBBs |-> all_vars(bbs) \ bbs'[b].assigned_before])
         /\ phase = "maybeass" /\ phase' = "maybeass" =>
              GrowingTurn([b \in AllBBs |-> bbs[b].maybe_assigned_before],
                          [b \in AllBBs |-> bbs'[b].maybe_assigned_before]) ]_vars
  /\ [](phase = "liveness" /\ queue = {} => LivenessStable)
  /\ [](phase = "defass" /\ queue = {} => DefiniteAssignmentStable)
  /\ [](phase = "maybeass" /\ queue = {} => MaybeAssignmentStable)
  /\ [](phase = "analyzed" =>
          LivenessStable /\ DefiniteAssignmentStable /\ MaybeAssignmentStable)
  /\ (phase = "built" ~> phase = "analyzed")

C28_Witness ==
  /\ phase = "analyzed" /\ queue = {}
  /\ whiles # <<>>
  /\ \E b \in AllBBs :
       /\ \E s \in Succs(b) : b \in ReachableFrom(s)
       /\ bbs[b].maybe_assigned_before # {} /\ LiveBefore(b) # {}

----------------------------------------------------------------------------
(* Functions called on their own: call is [fn, args], ret is <<>> until    *)
(* the call has returned                                                   *)

NoCompiler ==
  args = <<>> /\ hugr = <<>> /\ variables = <<>> /\ bbnode = NoBB /\ calls = <<>>

InitCall(c) ==
  /\ NoPipeline /\ sig = <<>>
  /\ NoCompiler
  /\ module = <<>>
  /\ phase = "call"
  /\ call = c
  /\ ret = <<>>

Returns(fn, value) ==
  /\ phase = "call" /\ call.fn = fn
  /\ ret' = value
  /\ phase' = "returned"
  /\ UNCHANGED <<cfgvars, err, pvars, call, module>>

----------------------------------------------------------------------------
(* SpecJoin: TypeBound.join on bounded sequences of bounds *)

MaxBounds == 4

TypeBound == {"Eq", "Copyable", "Any"}

\* a loop body that keeps the first bound that is not Eq
join_body_first(res, b) == IF res = "Eq" THEN b ELSE res

\* TypeBound.join, the body of the loop: the two if statements in turn
join_body(res, b) ==
  IF (IF res = "Eq" THEN b ELSE res) = "Copyable" /\ b = "Any" THEN "Any"
  ELSE IF res = "Eq" THEN b ELSE res

RECURSIVE join_loop(_, _)
\* TypeBound.join, the loop over bs
join_loop(res, bs) ==
  IF bs = <<>> THEN res ELSE join_loop(join_body(res, Head(bs)), Tail(bs))

\* TypeBound.join
join(bs) == join_loop("Eq", bs)

InitJoin ==
  \E bs \in UNION {[1..n -> TypeBound] : n \in 0..MaxBounds} :
    InitCall([fn |-> "join", args |-> bs])

TypeBound_join == Returns("join", join(call.args))

NextJoin == TypeBound_join

SpecJoin == InitJoin /\ [][NextJoin]_vars

\* the order Eq < Copyable < Any
BoundLeq(b1, b2) == b1 = "Eq" \/ b2 = "Any" \/ b1 = b2

\* C24: TypeBound.join returns the least upper bound under Eq < Copyable <
\* Any: the greatest bound that occurs in the sequence, Eq for the empty
\* sequence; so the result depends on the set of the arguments only, not on
\* their order or repetition, and join(b) = b
C24_JoinIsLeastUpperBound ==
  phase = "returned" =>
    /\ \A b \in Range(call.args) : BoundLeq(b, ret)
    /\ IF call.args = <<>> THEN ret = "Eq" ELSE ret \in Range(call.args)
    /\ Len(call.args) = 1 => ret = call.args[1]

C24_Witness ==
  /\ phase = "returned"
  /\ call.args = <<"Copyable", "Eq", "Any", "Copyable">>
  /\ ret = "Any"

----------------------------------------------------------------------------
(* SpecCall: ExpressionCompiler.visit_Call on bounded calls.  A call is    *)
(* [callee, keywords, params, args]: whether the callee has a function     *)
(* type, the number of keyword arguments, the argument types of the        *)
(* function type and the types of the arguments passed.                    *)

MaxCallArgs == 2

CallTypes == {"int", "bool"}

TypeRows == UNION {[1..n -> CallTypes] : n \in 0..MaxCallArgs}

Exc(kind) == [raised |-> kind]
ArityExc(kind, exp, act) == [raised |-> kind, expected |-> exp, got |-> act]

\* an arity check that compares the two counts the other way round
check_arity_as_named(exp, act) ==
  IF act < exp THEN ArityExc("Not enough arguments passed", exp, act)
  ELSE IF exp < act THEN Exc("Unexpected argument")
  ELSE Exc("none")

\* visit_Call: the two tests on exp = len(func_ty.args), act = len(node.args);
\* node.args[-1] of an empty list raises IndexError
check_arity(exp, act) ==
  IF exp < act THEN ArityExc("Not enough arguments passed", exp, act)
  ELSE IF act < exp
       THEN IF act = 0 THEN Exc("IndexError") ELSE Exc("Unexpected argument")
  ELSE Exc("none")

\* visit_Call: the loop over node.args, for arguments that compile
check_args(params, as) ==
  IF \E i \in 1..Len(as) : as[i] # params[i]
  THEN Exc("Expected argument of type") ELSE [value |-> "call"]

\* ExpressionCompiler.visit_Call
visit_Call(c) ==
  IF ~c.callee THEN Exc("Expected function type")
  ELSE IF c.keywords > 0 THEN Exc("Argument passing by keyword is not supported")
  ELSE IF check_arity(Len(c.params), Len(c.args)) # Exc("none")
       THEN check_arity(Len(c.params), Len(c.args))
  ELSE check_args(c.params, c.args)

InitCallSpec ==
  \E callee \in BOOLEAN, keywords \in {0, 1}, params \in TypeRows, as \in TypeRows :
    InitCall([fn |-> "visit_Call", callee |-> callee, keywords |-> keywords,
              params |-> params, args |-> as])

ExpressionCompiler_visit_Call == Returns("visit_Call", visit_Call(call))

NextCall == ExpressionCompiler_visit_Call

SpecCall == InitCallSpec /\ [][NextCall]_vars

Raised(kind) == "raised" \in DOMAIN ret /\ ret.raised = kind

\* C25: visit_Call checks the arity before it compiles the arguments: a call
\* with fewer arguments than the function type has parameters is rejected
\* with 'Not enough arguments passed (expected E, got A)', E the number of
\* parameters and A the number of arguments; a call with more arguments is
\* rejected with 'Unexpected argument'; a call with as many passes the check
C25_ArityChecked ==
  phase = "returned" /\ call.callee /\ call.keywords = 0 =>
    /\ Len(call.args) < Len(call.params) =>
         /\ Raised("Not enough arguments passed")
         /\ ret.expected = Len(call.params) /\ ret.got = Len(call.args)
    /\ Len(call.args) > Len(call.params) => Raised("Unexpected argument")
    /\ Len(call.args) = Len(call.params) =>
         ~Raised("Not enough arguments passed") /\ ~Raised("Unexpected argument")

\* what visit_Call does keep: a call with as many arguments as parameters
\* passes the arity check, and any other call is rejected before its
\* arguments are compiled
ArityMismatchRejected ==
  phase = "returned" /\ call.callee /\ call.keywords = 0 =>
    (Len(call.args) = Len(call.params)) <=>
       (Raised("Expected argument of type") \/ "value" \in DOMAIN ret)

----------------------------------------------------------------------------
(* SpecUnary: ExpressionCompiler.visit_UnaryOp on an operand of a given    *)
(* type and value.  The result is the dataflow that the compiler adds: a   *)
(* tree of arithmetic nodes over the operand's port and constants.         *)

MaxInt == 5

UnaryOps == {"UAdd", "USub", "Not", "Invert"}
OperandTypes == {"int", "float", "bool"}

Port == [node |-> "port"]
Constant(v) == [node |-> "const", value |-> v]
Arith(func, as) == [node |-> "arith", func |-> func, args |-> as]

\* graph.add_constant(1)
invert_constant_one == Constant(1)

\* visit_UnaryOp, the Invert branch: "one = self.graph.add_constant(0)"
invert_constant == Constant(0)

\* ExpressionCompiler.visit_UnaryOp
visit_UnaryOp(op, ty) ==
  CASE op = "UAdd" ->
         IF ty \notin {"int", "float"} THEN Exc("Expected expression of type int or float")
         ELSE [value |-> Port]
    [] op = "USub" ->
         IF ty \notin {"int", "float"} THEN Exc("Expected expression of type int or float")
         ELSE [value |-> Arith(IF ty = "int" THEN "ineg" ELSE "fneg", <<Port>>)]
    [] op = "Not" ->
         IF ty # "bool" THEN Exc("Expected expression of type bool")
         ELSE [value |-> Arith("not", <<Port>>)]
    [] op = "Invert" ->
         IF ty # "int" THEN Exc("Expected expression of type int")
         ELSE [value |-> Arith("ineg", <<Arith("iadd", <<Port, invert_constant>>)>>)]

InitUnary ==
  \E op \in UnaryOps, ty \in OperandTypes, x \in (0 - MaxInt)..MaxInt :
    InitCall([fn |-> "visit_UnaryOp", op |-> op, ty |-> ty, x |-> x])

ExpressionCompiler_visit_UnaryOp ==
  Returns("visit_UnaryOp", visit_UnaryOp(call.op, call.ty))

NextUnary == ExpressionCompiler_visit_UnaryOp

SpecUnary == InitUnary /\ [][NextUnary]_vars

RECURSIVE IntValue(_, _)
\* the integer that a dataflow of iadd and ineg nodes computes from x
IntValue(d, x) ==
  CASE d.node = "port" -> x
    [] d.node = "const" -> d.value
    [] d.node = "arith" /\ d.func = "ineg" -> 0 - IntValue(d.args[1], x)
    [] d.node = "arith" /\ d.func = "iadd" -> IntValue(d.args[1], x) + IntValue(d.args[2], x)

\* C26: ~x on an integer follows the Python definition ~x = -(x + 1):
\* visit_UnaryOp compiles it to ineg(iadd(x, c)) with the constant c = 1, so
\* the operations emitted compute -(x + 1) for every integer x
C26_InvertIsMinusSuccessor ==
  phase = "returned" /\ call.op = "Invert" /\ call.ty = "int" =>
    /\ "value" \in DOMAIN ret
    /\ ret.value = Arith("ineg", <<Arith("iadd", <<Port, Constant(1)>>)>>)
    /\ IntValue(ret.value, call.x) = 0 - (call.x + 1)

\* what the compiler emits for ~x: ineg(iadd(x, c)) for some constant c
InvertShape ==
  phase = "returned" /\ call.op = "Invert" /\ call.ty = "int" =>
    /\ "value" \in DOMAIN ret
    /\ \E c \in {0, 1} : ret.value = Arith("ineg", <<Arith("iadd", <<Port, Constant(c)>>)>>)
    /\ IntValue(ret.value, call.x) = 0 - call.x

----------------------------------------------------------------------------
(* SpecStruct: ParsedStructDef.check on bounded sets of struct             *)
(* definitions.  defs maps a struct to the type names of its fields, in    *)
(* declaration order; every struct is a ParsedStructDef, as it is when     *)
(* GuppyModule._check_defs checks the type definitions.  D is the set of   *)
(* structs that globals maps to a DummyStructDef.  A nested call beyond    *)
(* MaxDepth stands for a check that does not terminate.                    *)

MaxFields == 2
MaxDepth == 6

Structs == {"S", "T", "U"}
FieldTypes == {"int"} \cup Structs

Ok == [value |-> "ok"]
Diverged == [value |-> "diverged"]

\* a check_not_recursive that leaves the definition in place
dummy_defs_unchanged(D, s) == D

\* check_not_recursive: dummy_defs, the definitions with defn replaced by a
\* DummyStructDef
dummy_defs(D, s) == D \cup {s}

RECURSIVE ParsedStructDef_check(_, _, _, _)
RECURSIVE parse_fields(_, _, _, _)

\* type_from_ast for the name of a type: a struct is instantiated, which
\* raises for a DummyStructDef and checks a ParsedStructDef
\* (ParsedStructDef.check_instantiate)
type_from_ast(defs, ty, D, fuel) ==
  IF ty \notin Structs THEN Ok
  ELSE IF ty \in D THEN Exc("Recursive structs are not supported")
  ELSE ParsedStructDef_check(defs, ty, D, fuel)

\* the rest of a loop over fields after the first field gave r
parse_rest(r, defs, fields, D, fuel) ==
  IF r # Ok THEN r ELSE parse_fields(defs, fields, D, fuel)

\* the loops "for field in defn.fields: type_from_ast(field.type_ast, ...)"
parse_fields(defs, fields, D, fuel) ==
  IF fields = <<>> THEN Ok
  ELSE parse_rest(type_from_ast(defs, Head(fields), D, fuel), defs, Tail(fields), D, fuel)

\* check_not_recursive
check_not_recursive(defs, s, D, fuel) ==
  parse_fields(defs, defs[s], dummy_defs(D, s), fuel)

\* ParsedStructDef.check after check_not_recursive gave r
check_fields(r, defs, s, D, fuel) ==
  IF r # Ok THEN r ELSE parse_fields(defs, defs[s], D, fuel)

\* ParsedStructDef.check, as far as it raises or returns
ParsedStructDef_check(defs, s, D, fuel) ==
  IF fuel = 0 THEN Diverged
  ELSE check_fields(check_not_recursive(defs, s, D, fuel - 1), defs, s, D, fuel - 1)

\* the CheckedStructDef: a StructField for each field
CheckedStructDef(fields) ==
  [checked |-> [i \in 1..Len(fields) |-> [name |-> i, ty |-> fields[i]]]]

\* ParsedStructDef.check
check(r, fields) == IF r = Ok THEN CheckedStructDef(fields) ELSE r

FieldRows == UNION {[1..n -> FieldTypes] : n \in 0..MaxFields}

InitStruct ==
  \E defs \in [Structs -> FieldRows] :
    InitCall([fn |-> "check", struct |-> "S", defs |-> defs])

ParsedStructDef_check_call ==
  Returns("check",
          check(ParsedStructDef_check(call.defs, call.struct, {}, MaxDepth),
                call.defs[call.struct]))

NextStruct == ParsedStructDef_check_call

SpecStruct == InitStruct /\ [][NextStruct]_vars

\* the structs that the fields of the structs in R mention
Mentioned(R) == {t \in Structs : \E s \in R : t \in Range(call.defs[s])}

RECURSIVE MentionFix(_)
MentionFix(R) ==
  IF Mentioned(R) \subseteq R THEN R ELSE MentionFix(R \cup Mentioned(R))

\* the structs that s mentions, directly or through a chain of structs
MentionedFrom(s) == MentionFix(Mentioned({s}))

\* C22: ParsedStructDef.check terminates for every finite set of struct
\* definitions; it raises 'Recursive structs are not supported' if the
\* fields of the struct mention the struct itself, directly or through a
\* chain of other unchecked structs, and otherwise returns a
\* CheckedStructDef with one typed field per declared field, in
\* declaration order
C22_RecursiveIffMentionsItself ==
  phase = "returned" =>
    /\ ret # Diverged
    /\ IF call.struct \in MentionedFrom(call.struct)
       THEN Raised("Recursive structs are not supported")
       ELSE /\ "checked" \in DOMAIN ret
            /\ Len(ret.checked) = Len(call.defs[call.struct])
            /\ \A i \in 1..Len(ret.checked) :
                 ret.checked[i] = [name |-> i, ty |-> call.defs[call.struct][i]]

\* C22, amended: ParsedStructDef.check terminates for every finite set of
\* struct definitions; it raises 'Recursive structs are not supported' if
\* the struct, or a struct that its fields mention directly or through a
\* chain of unchecked structs, mentions itself in that way, and otherwise
\* returns a CheckedStructDef with one typed field per declared field, in
\* declaration order
C22_RecursiveIffReachesCycle ==
  phase = "returned" =>
    /\ ret # Diverged
    /\ IF \E t \in {call.struct} \cup MentionedFrom(call.struct) : t \in MentionedFrom(t)
       THEN Raised("Recursive structs are not supported")
       ELSE /\ "checked" \in DOMAIN ret
            /\ Len(ret.checked) = Len(call.defs[call.struct])
            /\ \A i \in 1..Len(ret.checked) :
                 ret.checked[i] = [name |-> i, ty |-> call.defs[call.struct][i]]

\* a struct rejected for a chain that leads back to it: S mentions T, T
\* mentions U and U mentions S
C22_Witness ==
  /\ phase = "returned"
  /\ call.defs["S"] = <<"T", "int">>
  /\ call.defs["T"] = <<"U">>
  /\ call.defs["U"] = <<"int", "S">>
  /\ Raised("Recursive structs are not supported")

\* a struct checked through a chain of structs: S mentions T, T mentions U
StructChainChecked ==
  /\ phase = "returned"
  /\ call.defs["S"] = <<"T", "int">>
  /\ call.defs["T"] = <<"U">>
  /\ call.defs["U"] = <<"int">>
  /\ ret = CheckedStructDef(<<"T", "int">>)

----------------------------------------------------------------------------
(* SpecModule: a GuppyModule under register_def, unregister,               *)
(* _register_buffered_instance_funcs, load, check and compile.  The        *)
(* variable module holds the fields of the GuppyModule; a definition is    *)
(* known by its DefId, and objects lists the definitions created so far    *)
(* (DefId.fresh numbers them): the name of each, whether it is a TypeDef,  *)
(* and whether checking it raises.  Types are opaque type definitions:     *)
(* they generate no methods, and being neither parsed nor checked they     *)
(* raise nothing in check.  call is the last call made on the module and   *)
(* ret what it returned or raised.                                         *)

MaxDefs == 3
MaxChecks == 2

DefNames == {"f", "g"}
DefKinds == {"func", "type"}
DefIds == 1..MaxDefs

NoId == 0
NoPackage == 0
NoImpls == [d \in DefIds |-> <<>>]
NoNames == [n \in DefNames |-> NoId]

\* GuppyModule.__init__ (without the import of the builtins)
GuppyModule_init ==
  [checked |-> FALSE, compiled |-> FALSE, compiled_hugr |-> NoPackage,
   instance_func_buffer |-> [on |-> FALSE, funcs |-> <<>>],
   raw_defs |-> {}, raw_type_defs |-> {}, checked_defs |-> {},
   defs |-> {}, names |-> NoNames, impls |-> NoImpls,
   imported |-> FALSE, objects |-> <<>>, checks |-> 0, packages |-> 0,
   exc |-> ""]

\* an exception leaving the call
raise(m, kind) == [m EXCEPT !.exc = kind]

\* a register_def or unregister that leaves the results of check and compile
flags_kept(m) == m

\* a register_def or unregister that marks the module unchecked only
flags_unchecked(m) == [m EXCEPT !.checked = FALSE]

\* register_def and unregister: _checked = False, _compiled = False,
\* _compiled_hugr = None
reset_flags(m) ==
  [m EXCEPT !.checked = FALSE, !.compiled = FALSE, !.compiled_hugr = NoPackage]

\* contains
contains(m, name) == m.names[name] # NoId

\* dict[key] = value on a dict kept as a list of items in insertion order
RECURSIVE dict_set(_, _, _)
dict_set(items, name, id) ==
  IF items = <<>> THEN <<[name |-> name, id |-> id]>>
  ELSE IF Head(items).name = name THEN <<[name |-> name, id |-> id]>> \o Tail(items)
  ELSE <<Head(items)>> \o dict_set(Tail(items), name, id)

RECURSIVE unregister(_, _)
RECURSIVE unregister_impls(_, _)

\* unregister: the loop over impls.values() after the previous calls gave m
unregister_next(m, impls) ==
  IF m.exc # "" THEN m ELSE unregister_impls(m, impls)

\* unregister: for impl in impls.values(): self.unregister(self._globals[impl])
unregister_impls(m, impls) ==
  IF impls = <<>> THEN m
  ELSE IF Head(impls).id \notin m.defs THEN raise(m, "KeyError")
  ELSE unregister_next(unregister(m, Head(impls).id), Tail(impls))

\* unregister
unregister(m, d) ==
  unregister_impls(
    [reset_flags(m) EXCEPT
       !.raw_defs = @ \ {d},
       !.raw_type_defs = @ \ {d},
       !.defs = @ \ {d},
       !.names[m.objects[d].name] = NoId,
       !.impls[d] = <<>>],
    m.impls[d])

\* register_def: the definition is entered after the old one was purged
register_new(m, d, instance) ==
  IF m.exc # "" THEN m
  ELSE [m EXCEPT
          !.raw_type_defs = IF m.objects[d].kind = "type" THEN @ \cup {d} ELSE @,
          !.raw_defs = IF m.objects[d].kind = "type" THEN @ ELSE @ \cup {d},
          !.impls = IF instance # NoId
                    THEN [@ EXCEPT ![instance] = dict_set(@, m.objects[d].name, d)]
                    ELSE @,
          !.names = IF instance # NoId THEN @ ELSE [@ EXCEPT ![m.objects[d].name] = d],
          !.defs = @ \cup {d}]

\* register_def: if self.contains(defn.name): self.unregister(...)
purge_old(m, d, instance) ==
  IF contains(m, m.objects[d].name)
  THEN IF m.names[m.objects[d].name] \in m.defs
       THEN unregister(m, m.names[m.objects[d].name])
       ELSE raise(m, "KeyError")
  ELSE m

\* register_def after the flags were reset
register_unchecked(m, d, instance) ==
  IF m.instance_func_buffer.on /\ m.objects[d].kind # "type"
  THEN [m EXCEPT !.instance_func_buffer.funcs = dict_set(@, m.objects[d].name, d)]
  ELSE register_new(purge_old(m, d, instance), d, instance)

\* register_def
register_def(m, d, instance) == register_unchecked(reset_flags(m), d, instance)

RECURSIVE register_buffered(_, _, _)
\* _register_buffered_instance_funcs: for defn in buffer.values()
register_buffered(m, funcs, instance) ==
  IF funcs = <<>> \/ m.exc # "" THEN m
  ELSE register_buffered(register_def(m, Head(funcs).id, instance), Tail(funcs), instance)

\* _register_buffered_instance_funcs
register_buffered_instance_funcs(m, instance) ==
  IF ~m.instance_func_buffer.on THEN raise(m, "AssertionError")
  ELSE register_buffered([m EXCEPT !.instance_func_buffer = [on |-> FALSE, funcs |-> <<>>]],
                         m.instance_func_buffer.funcs, instance)

\* check
check_module(m) ==
  IF m.checked THEN m
  ELSE IF \E d \in m.raw_type_defs \cup m.raw_defs : m.objects[d].bad
  THEN raise([m EXCEPT !.checks = @ + 1], "GuppyError")
  ELSE [m EXCEPT !.checked_defs = m.raw_type_defs \cup m.raw_defs,
                 !.checked = TRUE,
                 !.checks = @ + 1]

\* compile after check: the lowering and the new package
compile_checked(m, lowering_fails) ==
  IF m.exc # "" THEN m
  ELSE IF lowering_fails THEN raise(m, "GuppyError")
  ELSE [m EXCEPT !.compiled = TRUE,
                 !.packages = @ + 1,
                 !.compiled_hugr = m.packages + 1]

\* compile
compile_module(m, lowering_fails) ==
  IF m.compiled
  THEN IF m.compiled_hugr = NoPackage THEN raise(m, "AssertionError") ELSE m
  ELSE compile_checked(check_module(m), lowering_fails)

\* load of a definition of this module, of another module, or of something
\* that is neither
load(m, imp) ==
  IF imp = "definition" THEN
    (IF check_module(m).exc # "" THEN check_module(m)
     ELSE [check_module(m) EXCEPT !.imported = TRUE])
  ELSE IF imp = "module" THEN [m EXCEPT !.imported = TRUE]
  ELSE raise(m, "GuppyError")

Imports == {"definition", "module", "other"}

\* DefId.fresh and the definition made with it
fresh(m, name, kind, bad) ==
  [m EXCEPT !.objects = Append(@, [name |-> name, kind |-> kind, bad |-> bad])]

\* the types created so far
TypeDefs(m) == {d \in 1..Len(m.objects) : m.objects[d].kind = "type"}

InitModule ==
  /\ NoPipeline
  /\ NoCompiler
  /\ sig = <<>>
  /\ phase = "module"
  /\ call = <<>>
  /\ ret = <<>>
  /\ module = GuppyModule_init

\* the call c made m of the module: what it raised is in ret
Called(c, m, value) ==
  /\ phase = "module"
  /\ call' = c
  /\ module' = [m EXCEPT !.exc = ""]
  /\ ret' = IF m.exc # "" THEN Exc(m.exc) ELSE value
  /\ UNCHANGED <<cfgvars, err, pvars, phase>>

GuppyModule_register_def ==
  \E name \in DefNames, kind \in DefKinds, bad \in BOOLEAN,
     instance \in {NoId} \cup TypeDefs(module) :
    /\ Len(module.objects) < MaxDefs
    /\ bad => kind = "func"
    /\ Called([fn |-> "register_def", instance |-> instance],
              register_def(fresh(module, name, kind, bad),
                           Len(module.objects) + 1, instance),
              [value |-> "None"])

GuppyModule_unregister ==
  \E d \in 1..Len(module.objects) :
    Called([fn |-> "unregister", defn |-> d], unregister(module, d),
           [value |-> "None"])

\* the decorator of a type starts to buffer the functions of its class
GuppyModule_buffer ==
  /\ ~module.instance_func_buffer.on
  /\ Called([fn |-> "buffer"],
            [module EXCEPT !.instance_func_buffer = [on |-> TRUE, funcs |-> <<>>]],
            [value |-> "None"])

GuppyModule_register_buffered_instance_funcs ==
  \E instance \in TypeDefs(module) :
    Called([fn |-> "_register_buffered_instance_funcs", instance |-> instance],
           register_buffered_instance_funcs(module, instance),
           [value |-> "None"])

GuppyModule_load ==
  \E imp \in Imports :
    /\ module.checks < MaxChecks
    /\ Called([fn |-> "load"], load(module, imp), [value |-> "None"])

GuppyModule_check ==
  /\ module.checks < MaxChecks
  /\ Called([fn |-> "check"], check_module(module), [value |-> "None"])

GuppyModule_compile ==
  \E lowering_fails \in BOOLEAN :
    /\ module.checks < MaxChecks
    /\ Called([fn |-> "compile"],
              compile_module(module, lowering_fails),
              [package |-> compile_module(module, lowering_fails).compiled_hugr])

NextModule ==
  \/ GuppyModule_register_def
  \/ GuppyModule_unregister
  \/ GuppyModule_buffer
  \/ GuppyModule_register_buffered_instance_funcs
  \/ GuppyModule_load
  \/ GuppyModule_check
  \/ GuppyModule_compile

SpecModule == InitModule /\ [][NextModule]_vars

\* the last call made on the module was fn
LastCall(fn) == "fn" \in DOMAIN call /\ call.fn = fn

\* C29: in every state of a GuppyModule reached by register_def,
\* unregister, load, check and compile calls, failing calls included,
\* _compiled implies that _compiled_hugr is not None and that _checked
\* holds, and the assertion in compile never fails
C29_CompiledHasHugrAndIsChecked ==
  phase = "module" =>
    /\ module.compiled => module.compiled_hugr # NoPackage /\ module.checked
    /\ ~(LastCall("compile") /\ Raised("AssertionError"))

\* a module compiled a second time, after a call on it raised
C29_Witness ==
  /\ phase = "module"
  /\ module.compiled
  /\ module.packages = 2
  /\ \E d \in 1..Len(module.objects) : module.objects[d].bad

\* C21: check on a checked module does nothing; compile on a compiled
\* module returns the package of the last successful compile, without a
\* check or a new package; register_def and unregister leave the module
\* unchecked and uncompiled, so that the next compile checks the module
\* again and builds a new package
CachedResults ==
  /\ module.compiled => module.compiled_hugr = module.packages
  /\ LastCall("check")' /\ module.checked =>
       module' = module /\ ret' = [value |-> "None"]
  /\ LastCall("compile")' /\ module.compiled =>
       module' = module /\ ret' = [package |-> module.compiled_hugr]
  /\ LastCall("register_def")' \/ LastCall("unregister")' =>
       ~module'.checked /\ ~module'.compiled
  /\ LastCall("compile")' /\ ~module.checked /\ "package" \in DOMAIN ret' =>
       /\ module'.checks = module.checks + 1
       /\ module'.packages = module.packages + 1
       /\ module'.compiled_hugr = module'.packages
       /\ ret'.package = module'.packages

C21_CachedUntilRegistered == [][phase = "module" => CachedResults]_vars

\* a second package, built by the compile after a register_def or unregister
C21_Witness ==
  /\ phase = "module"
  /\ LastCall("compile")
  /\ module.checks = 2
  /\ ret = [package |-> 2]

\* the definitions that check would check, or that _globals.defs holds
Held(m) == m.raw_defs \cup m.raw_type_defs \cup m.defs

\* the definition that the name resolves to: at module level, or among the
\* methods of the type instance
Resolve(m, name, instance) ==
  IF instance = NoId THEN m.names[name]
  ELSE IF \E i \in 1..Len(m.impls[instance]) : m.impls[instance][i].name = name
       THEN (CHOOSE e \in Range(m.impls[instance]) : e.name = name).id
       ELSE NoId

\* the methods of the type d
Methods(m, d) == {e.id : e \in Range(m.impls[d])}

\* the definition that the last call registered
Registered == Len(module'.objects)

\* register_def entered the definition, for the given instances
Replaced(instances) ==
  /\ LastCall("register_def")'
  /\ call'.instance \in instances
  /\ ret' = [value |-> "None"]
  /\ Registered \in module'.defs
  /\ Resolve(module, module'.objects[Registered].name, call'.instance) \in module.defs
  =>
  /\ Resolve(module, module'.objects[Registered].name, call'.instance) \notin Held(module')
  /\ Resolve(module', module'.objects[Registered].name, call'.instance) = Registered
  /\ Methods(module, Resolve(module, module'.objects[Registered].name, call'.instance))
       \cap Held(module') = {}

\* C23: when register_def enters a definition whose name is already
\* defined, at module level or among the methods of the instance type, the
\* old definition is in none of _raw_defs, _raw_type_defs and _globals.defs
\* afterwards, the name resolves to the new definition, and the methods of
\* an old type are removed as well
C23_Replaces == [][phase = "module" => Replaced({NoId} \cup DefIds)]_vars

\* the replacement of a module-level definition
ModuleLevelReplaces == [][phase = "module" => Replaced({NoId})]_vars

\* a module-level type with a method was replaced
ModuleLevelReplaced ==
  /\ phase = "module"
  /\ LastCall("register_def")
  /\ call.instance = NoId
  /\ Len(module.objects) = 3
  /\ module.objects[1].kind = "type"
  /\ module.objects[3].name = module.objects[1].name
  /\ module.names[module.objects[3].name] = 3
  /\ module.defs = {3}

\* the module-level definitions: those that a name resolves to
ModuleLevel(m) == {m.names[n] : n \in DefNames} \cap m.defs

RECURSIVE Involved(_, _)
\* a type and its methods, and theirs
Involved(m, ds) ==
  IF (UNION {Methods(m, d) : d \in ds}) \subseteq ds THEN ds
  ELSE Involved(m, ds \cup UNION {Methods(m, d) : d \in ds})

\* the module-level definitions other than those in ds stay where they are
ModuleLevelKept(ds) ==
  \A n \in DefNames :
    module.names[n] \in module.defs \ ds =>
      /\ module'.names[n] = module.names[n]
      /\ module.names[n] \in module'.defs
      /\ module.names[n] \in module.raw_defs => module.names[n] \in module'.raw_defs
      /\ module.names[n] \in module.raw_type_defs => module.names[n] \in module'.raw_type_defs

\* C30: registering a definition as an instance method of a type, and
\* unregistering a type together with its methods, leave every other
\* module-level definition in _raw_defs and _globals.defs and resolvable
\* by its name, also when its name is the name of such a method
SeparateNamespaces ==
  /\ LastCall("register_def")' /\ call'.instance # NoId => ModuleLevelKept({})
  /\ LastCall("_register_buffered_instance_funcs")' => ModuleLevelKept({})
  /\ /\ LastCall("unregister")'
     /\ module.objects[call'.defn].kind = "type"
     /\ call'.defn \in module.defs
     => ModuleLevelKept(Involved(module, {call'.defn}))

C30_SeparateNamespaces == [][phase = "module" => SeparateNamespaces]_vars

\* the other names: a method registered or unregistered leaves the
\* module-level definitions of every other name alone
OtherNamesKept ==
  [][phase = "module" /\ LastCall("register_def")' /\ call'.instance # NoId
       /\ ret' = [value |-> "None"] =>
     \A n \in DefNames \ {module'.objects[Registered].name} :
       /\ module'.names[n] = module.names[n]
       /\ module.names[n] \in module.defs => module.names[n] \in module'.defs]_vars

====
